---- MODULE Spec2Model ----
(***************************************************************************)
(* Project export / import of the antenna platform                         *)
(*   src/ami/main/management/commands/export_project.py                    *)
(*   src/ami/main/management/commands/import_project.py                    *)
(*                                                                         *)
(* The store is a record of tables, one per entity kind; a table is a set  *)
(* of rows and a row is a record with its primary key in the field id.     *)
(* Only the fields that carry identity, natural keys and relationships are *)
(* kept; descriptive payload (descriptions, coordinates, timestamps) does  *)
(* not take part in any relationship and is left out.  A null foreign key  *)
(* is None.  An import runs inside one transaction: it reads and writes    *)
(* the working copy tx, and db is what is durably committed.               *)
(***************************************************************************)
EXTENDS Integers, Sequences, FiniteSets, TLC

VARIABLES
  db,        \* the committed store of the current database instance
  tx,        \* the store as seen inside the open import transaction
  pre,       \* history: db when the current / last import invocation began
  doc,       \* the export document on disk (NoDoc before the first export)
  docsrc,    \* history: where doc came from (kind of document, source store)
  pc,        \* position of the import command
  idx,       \* index of the next record in the list being imported
  id_maps,   \* Command.id_maps: per kind, old id -> new id
  taxa_by_old_id, \* local of import_taxa: old id -> row id of the Taxon object
  opts,      \* options of the running import (user, project_name, skip flags)
  project,   \* pk of the Project created by the running import
  out,       \* lines written to stdout by the running / last import
  dropped,   \* history: records skipped by the running / last import
  fault,     \* history: where the last import raised, and whether it had written
  instance,  \* which database instance db is: "source" or "other"
  log,       \* history: the project of every committed import, and whether
             \* it was run with no skip flag
  nimports   \* number of import invocations that opened their transaction

vars == <<db, tx, pre, doc, docsrc, pc, idx, id_maps, taxa_by_old_id, opts,
          project, out, dropped, fault, instance, log, nimports>>

\* ------------------------------------------------------------------ bounds
\* imports of one exported document that open their transaction
MaxImports == 2

\* imports of one hand-changed document that open their transaction
MaxEditedImports == 1

\* ----------------------------------------------------------------- helpers
None == 0

Falsy(x) == x = None

\* dict.get(k): None for a missing key
Get(m, k) == IF k \in DOMAIN m THEN m[k] ELSE None

\* d[k] = v
Put(m, k, v) == [x \in (DOMAIN m) \cup {k} |-> IF x = k THEN v ELSE m[x]]

EmptyMap == [x \in {} |-> None]

Ids(rows) == {r.id : r \in rows}

Row(rows, i) == CHOOSE r \in rows : r.id = i

MaxOf(S) == CHOOSE x \in S : \A y \in S : y <= x

\* the primary key the store gives to the next row of a table
NewId(rows) == IF rows = {} THEN 1 ELSE MaxOf(Ids(rows)) + 1

RECURSIVE SeqOf(_)
\* the rows of a queryset in primary-key order
SeqOf(rows) ==
  IF rows = {} THEN << >>
  ELSE LET r == CHOOSE x \in rows : \A y \in rows : x.id <= y.id
       IN  <<r>> \o SeqOf(rows \ {r})

\* QuerySet.first(): the first matching row, None when there is none
First(rows) == IF rows = {} THEN None ELSE SeqOf(rows)[1].id

Range(s) == {s[i] : i \in DOMAIN s}

Kinds == {"project", "site", "device", "storage_source", "deployment", "event",
          "source_image", "collection", "taxon", "taxa_list", "tag", "detection",
          "classification", "occurrence", "identification", "algorithm",
          "category_map", "pipeline", "processing_service", "pipeline_config"}

\* Command.__init__: every id map starts empty
InitIdMaps == [k \in Kinds |-> EmptyMap]

\* ------------------------------------------------------------------- names
\* A project name is a base string followed by the " (n)" suffixes appended to it.
Name(base) == [base |-> base, sfx |-> << >>]

\* no --project-name given
NoName == Name("")

\* a suffix that is never appended
Suffixed_dropped(name, n) == name

\* f"{base_name} ({counter})"
Suffixed(name, n) == [name EXCEPT !.sfx = Append(@, n)]

\* ------------------------------------------------------------------- store
Users == {"alice", "bob"}

EmptyStore ==
  [project |-> {}, site |-> {}, device |-> {}, storage_source |-> {},
   deployment |-> {}, event |-> {}, taxon |-> {}, taxa_list |-> {}, tag |-> {},
   source_image |-> {}, collection |-> {}, category_map |-> {}, algorithm |-> {},
   occurrence |-> {}, detection |-> {}, classification |-> {},
   identification |-> {}, processing_service |-> {}, pipeline |-> {},
   pipeline_config |-> {}]

\* The source project "A" of alice: two deployments (one fully wired, one with
\* no site / device / storage), an event and an image under each, a taxon
\* hierarchy Lepidoptera > Noctuidae with a synonym, and ML results on it.
\* Noctuidae is linked to the project; whether its parent Lepidoptera is
\* linked as well is the choice parentLinked (Taxon.projects is many-to-many
\* and set per taxon).
SourceStore(parentLinked) ==
  [project |-> {[id |-> 1, name |-> Name("A"), owner |-> "alice", members |-> {"alice"}]},
   site |-> {[id |-> 1, project |-> 1, name |-> "site"]},
   device |-> {[id |-> 1, project |-> 1, name |-> "device"]},
   storage_source |-> {[id |-> 1, project |-> 1, name |-> "s3"]},
   deployment |->
     {[id |-> 1, project |-> 1, name |-> "d1", research_site |-> 1, device |-> 1, data_source |-> 1],
      [id |-> 2, project |-> 1, name |-> "d2", research_site |-> None, device |-> None, data_source |-> None]},
   event |-> {[id |-> 1, project |-> 1, deployment |-> 1],
              [id |-> 2, project |-> 1, deployment |-> 2]},
   taxon |->
     {[id |-> 1, name |-> "Lepidoptera", parent |-> None, synonym_of |-> None,
       projects |-> IF parentLinked THEN {1} ELSE {}],
      [id |-> 2, name |-> "Noctuidae", parent |-> 1, synonym_of |-> None, projects |-> {1}],
      [id |-> 3, name |-> "Noctuadae", parent |-> 1, synonym_of |-> 2, projects |-> {1}]},
   taxa_list |-> {[id |-> 1, name |-> "list", projects |-> {1}, taxa |-> {1, 2}]},
   tag |-> {[id |-> 1, project |-> 1, name |-> "tag", taxa |-> {2}]},
   source_image |-> {[id |-> 1, project |-> 1, deployment |-> 1, event |-> 1],
                     [id |-> 2, project |-> 1, deployment |-> 2, event |-> None]},
   collection |-> {[id |-> 1, project |-> 1, name |-> "all", images |-> {1, 2}]},
   category_map |-> {[id |-> 1, data |-> "cm"]},
   algorithm |-> {[id |-> 1, key |-> "detector", version |-> 1, category_map |-> None],
                  [id |-> 2, key |-> "classifier", version |-> 1, category_map |-> 1]},
   occurrence |-> {[id |-> 1, project |-> 1, event |-> 1, deployment |-> 1, determination |-> 2, saves |-> 0],
                   [id |-> 2, project |-> 1, event |-> 2, deployment |-> 2, determination |-> None, saves |-> 0]},
   detection |-> {[id |-> 1, source_image |-> 1, occurrence |-> 1, detection_algorithm |-> 1],
                  [id |-> 2, source_image |-> 2, occurrence |-> None, detection_algorithm |-> None]},
   classification |-> {[id |-> 1, detection |-> 1, taxon |-> 2, algorithm |-> 2]},
   identification |->
     {[id |-> 1, user |-> "alice", occurrence |-> 1, taxon |-> 2,
       agreed_with_identification |-> None, agreed_with_prediction |-> 1],
      [id |-> 2, user |-> "alice", occurrence |-> 1, taxon |-> 2,
       agreed_with_identification |-> 1, agreed_with_prediction |-> None]},
   processing_service |-> {[id |-> 1, endpoint_url |-> "http://ps", projects |-> {1}]},
   pipeline |-> {[id |-> 1, name |-> "pipe", version |-> 1, algorithms |-> {1, 2}]},
   pipeline_config |-> {[id |-> 1, project |-> 1, pipeline |-> 1]}]

\* Another database instance, holding no project data yet
FreshStore == EmptyStore

\* -------------------------------------------------------------- export side
SeqMap(f(_), s) == [i \in DOMAIN s |-> f(s[i])]

NameOf(rows, i) == IF i = None THEN "" ELSE Row(rows, i).name

\* an export that writes the owner into the project record
export_project_with_owner(s, p) ==
  [id |-> p, name |-> Row(s.project, p).name, owner |-> Row(s.project, p).owner]

export_project(s, p) == [id |-> p, name |-> Row(s.project, p).name]

export_sites(s, p) ==
  LET f(r) == [id |-> r.id, name |-> r.name]
  IN  SeqMap(f, SeqOf({r \in s.site : r.project = p}))

export_devices(s, p) ==
  LET f(r) == [id |-> r.id, name |-> r.name]
  IN  SeqMap(f, SeqOf({r \in s.device : r.project = p}))

export_storage_sources(s, p) ==
  LET f(r) == [id |-> r.id, name |-> r.name]
  IN  SeqMap(f, SeqOf({r \in s.storage_source : r.project = p}))

export_deployments(s, p) ==
  LET f(r) == [id |-> r.id, name |-> r.name, research_site_id |-> r.research_site,
               device_id |-> r.device, data_source_id |-> r.data_source]
  IN  SeqMap(f, SeqOf({r \in s.deployment : r.project = p}))

export_events(s, p) ==
  LET f(r) == [id |-> r.id, deployment_id |-> r.deployment]
  IN  SeqMap(f, SeqOf({r \in s.event : r.project = p}))

export_source_images(s, p) ==
  LET f(r) == [id |-> r.id, deployment_id |-> r.deployment, event_id |-> r.event]
  IN  SeqMap(f, SeqOf({r \in s.source_image : r.project = p}))

export_collections(s, p) ==
  LET f(r) == [id |-> r.id, name |-> r.name, image_ids |-> r.images]
  IN  SeqMap(f, SeqOf({r \in s.collection : r.project = p}))

\* project.taxa.all(): the taxa linked to the project, and only those
export_taxa(s, p) ==
  LET f(r) == [id |-> r.id, name |-> r.name, parent_id |-> r.parent,
               parent_name |-> NameOf(s.taxon, r.parent),
               synonym_of_id |-> r.synonym_of,
               synonym_of_name |-> NameOf(s.taxon, r.synonym_of)]
  IN  SeqMap(f, SeqOf({r \in s.taxon : p \in r.projects}))

export_taxa_lists(s, p) ==
  LET f(r) == [id |-> r.id, name |-> r.name, taxa_ids |-> r.taxa]
  IN  SeqMap(f, SeqOf({r \in s.taxa_list : p \in r.projects}))

export_tags(s, p) ==
  LET f(r) == [id |-> r.id, name |-> r.name, taxa_ids |-> r.taxa]
  IN  SeqMap(f, SeqOf({r \in s.tag : r.project = p}))

\* Detection.objects.filter(source_image__project=project)
ProjectDetections(s, p) ==
  {r \in s.detection : \E i \in s.source_image : i.id = r.source_image /\ i.project = p}

\* Classification.objects.filter(detection__source_image__project=project)
ProjectClassifications(s, p) ==
  {r \in s.classification : r.detection \in Ids(ProjectDetections(s, p))}

export_detections(s, p) ==
  LET f(r) == [id |-> r.id, source_image_id |-> r.source_image,
               occurrence_id |-> r.occurrence,
               detection_algorithm_id |-> r.detection_algorithm]
  IN  SeqMap(f, SeqOf(ProjectDetections(s, p)))

export_classifications(s, p) ==
  LET f(r) == [id |-> r.id, detection_id |-> r.detection, taxon_id |-> r.taxon,
               algorithm_id |-> r.algorithm]
  IN  SeqMap(f, SeqOf(ProjectClassifications(s, p)))

export_occurrences(s, p) ==
  LET f(r) == [id |-> r.id, determination_id |-> r.determination,
               event_id |-> r.event, deployment_id |-> r.deployment]
  IN  SeqMap(f, SeqOf({r \in s.occurrence : r.project = p}))

\* Identification.objects.filter(occurrence__project=project); no user field
export_identifications(s, p) ==
  LET f(r) == [id |-> r.id, occurrence_id |-> r.occurrence, taxon_id |-> r.taxon,
               agreed_with_identification_id |-> r.agreed_with_identification,
               agreed_with_prediction_id |-> r.agreed_with_prediction]
      mine == {r \in s.identification :
                 \E o \in s.occurrence : o.id = r.occurrence /\ o.project = p}
  IN  SeqMap(f, SeqOf(mine))

\* category_map_data of an algorithm that has no category map (JSON null)
NoData == ""

\* the algorithms named by the project's detections and classifications

export_algorithms(s, p) ==
  LET algorithm_ids ==
        ({r.detection_algorithm : r \in ProjectDetections(s, p)}
           \cup {r.algorithm : r \in ProjectClassifications(s, p)}) \ {None}
      f(r) == [id |-> r.id, key |-> r.key, version |-> r.version,
               category_map_id |-> r.category_map,
               category_map_data |->
                 IF r.category_map = None THEN NoData
                 ELSE Row(s.category_map, r.category_map).data]
  IN  SeqMap(f, SeqOf({r \in s.algorithm : r.id \in algorithm_ids}))

\* one pipeline record per ProjectPipelineConfig of the project
export_pipelines(s, p) ==
  LET f(c) == LET r == Row(s.pipeline, c.pipeline)
              IN  [id |-> r.id, name |-> r.name, version |-> r.version,
                   algorithm_ids |-> r.algorithms]
  IN  SeqMap(f, SeqOf({c \in s.pipeline_config : c.project = p}))

export_processing_services(s, p) ==
  LET f(r) == [id |-> r.id, endpoint_url |-> r.endpoint_url]
  IN  SeqMap(f, SeqOf({r \in s.processing_service : p \in r.projects}))

export_pipeline_configs(s, p) ==
  LET f(r) == [id |-> r.id, pipeline_id |-> r.pipeline]
  IN  SeqMap(f, SeqOf({r \in s.pipeline_config : r.project = p}))

\* the keys of the dict build_export_data returns, in the order it inserts
\* them, which is the order json.dump writes the sections in
SectionKeys ==
  <<"project", "sites", "devices", "storage_sources", "deployments", "events",
    "source_images", "collections", "taxa", "taxa_lists", "tags", "detections",
    "classifications", "occurrences", "identifications", "algorithms", "pipelines",
    "processing_services", "pipeline_configs">>

build_export_data(s, p) ==
  [export_version |-> "1.0",
   sections |-> SectionKeys,
   project |-> export_project(s, p),
   sites |-> export_sites(s, p),
   devices |-> export_devices(s, p),
   storage_sources |-> export_storage_sources(s, p),
   deployments |-> export_deployments(s, p),
   events |-> export_events(s, p),
   source_images |-> export_source_images(s, p),
   collections |-> export_collections(s, p),
   taxa |-> export_taxa(s, p),
   taxa_lists |-> export_taxa_lists(s, p),
   tags |-> export_tags(s, p),
   detections |-> export_detections(s, p),
   classifications |-> export_classifications(s, p),
   occurrences |-> export_occurrences(s, p),
   identifications |-> export_identifications(s, p),
   algorithms |-> export_algorithms(s, p),
   pipelines |-> export_pipelines(s, p),
   processing_services |-> export_processing_services(s, p),
   pipeline_configs |-> export_pipeline_configs(s, p)]

\* -------------------------------------------------------------- import side
\* What one pass of a handler's loop body leaves behind: the store, the id
\* maps, and whether the record was skipped (the `continue` branch).
Res(st, maps, skip) == [st |-> st, maps |-> maps, skip |-> skip]

\* self.id_maps[kind][old_id] = new_pk
Register(maps, kind, old, new) == [maps EXCEPT ![kind] = Put(@, old, new)]

\* a collision policy that tries one suffix only
UniqueName_no_loop(names, base_name, counter) == Suffixed(base_name, counter)

\* the project-name collision loop of import_project
RECURSIVE UniqueName(_, _, _)
UniqueName(names, base_name, counter) ==
  LET name == Suffixed(base_name, counter)
  IN  IF name \in names THEN UniqueName(names, base_name, counter + 1) ELSE name

ProjectNames(st) == {r.name : r \in st.project}

\* an importer that takes the name as it is given
ImportedProjectName_as_given(st, project_data, options) ==
  IF options.project_name # NoName THEN options.project_name ELSE project_data.name

\* name = options.get("project_name") or project_data["name"], made unique
ImportedProjectName(st, project_data, options) ==
  LET name == IF options.project_name # NoName THEN options.project_name
              ELSE project_data.name
  IN  IF name \in ProjectNames(st) THEN UniqueName(ProjectNames(st), name, 1)
      ELSE name

\* an importer that takes over the project row with the document's id instead
\* of creating one
import_project_body_reuse(st, maps, project_data, options) ==
  Res([st EXCEPT !.project =
         {IF r.id = project_data.id
            THEN [r EXCEPT !.owner = options.user, !.members = @ \cup {options.user}]
            ELSE r : r \in @}],
      Register(maps, "project", project_data.id, project_data.id), FALSE)

import_project_body(st, maps, project_data, options) ==
  LET new == NewId(st.project)
      row == [id |-> new, name |-> ImportedProjectName(st, project_data, options),
              owner |-> options.user, members |-> {options.user}]
  IN  Res([st EXCEPT !.project = @ \cup {row}],
          Register(maps, "project", project_data.id, new), FALSE)

import_sites_body(st, maps, site_data, proj) ==
  LET new == NewId(st.site)
  IN  Res([st EXCEPT !.site = @ \cup {[id |-> new, project |-> proj, name |-> site_data.name]}],
          Register(maps, "site", site_data.id, new), FALSE)

import_devices_body(st, maps, device_data, proj) ==
  LET new == NewId(st.device)
  IN  Res([st EXCEPT !.device = @ \cup {[id |-> new, project |-> proj, name |-> device_data.name]}],
          Register(maps, "device", device_data.id, new), FALSE)

import_storage_sources_body(st, maps, source_data, proj) ==
  LET new == NewId(st.storage_source)
  IN  Res([st EXCEPT !.storage_source =
                        @ \cup {[id |-> new, project |-> proj, name |-> source_data.name]}],
          Register(maps, "storage_source", source_data.id, new), FALSE)

\* a row that keeps the document's ids instead of resolving them
DeploymentRow_raw_ids(new, proj, maps, deployment_data) ==
  [id |-> new, project |-> proj, name |-> deployment_data.name,
   research_site |-> deployment_data.research_site_id,
   device |-> deployment_data.device_id,
   data_source |-> deployment_data.data_source_id]

DeploymentRow(new, proj, maps, deployment_data) ==
  [id |-> new, project |-> proj, name |-> deployment_data.name,
   research_site |-> Get(maps.site, deployment_data.research_site_id),
   device |-> Get(maps.device, deployment_data.device_id),
   data_source |-> Get(maps.storage_source, deployment_data.data_source_id)]

import_deployments_body(st, maps, deployment_data, proj) ==
  LET new == NewId(st.deployment)
  IN  Res([st EXCEPT !.deployment = @ \cup {DeploymentRow(new, proj, maps, deployment_data)}],
          Register(maps, "deployment", deployment_data.id, new), FALSE)

\* an importer that keeps the record whatever its deployment resolves to
EventSkipped_never(deployment_id) == FALSE

\* `if not deployment_id: continue`
EventSkipped(deployment_id) == Falsy(deployment_id)

import_events_body(st, maps, event_data, proj) ==
  LET deployment_id == Get(maps.deployment, event_data.deployment_id)
      new == NewId(st.event)
  IN  IF EventSkipped(deployment_id) THEN Res(st, maps, TRUE)
      ELSE Res([st EXCEPT !.event =
                            @ \cup {[id |-> new, project |-> proj, deployment |-> deployment_id]}],
               Register(maps, "event", event_data.id, new), FALSE)

\* The in-memory Taxon object of a row: its column values when it was loaded
TaxonObject(r) == [id |-> r.id, name |-> r.name, parent |-> r.parent,
                   synonym_of |-> r.synonym_of]

\* taxon.save(): writes the object's columns over the row (memberships are
\* rows of another table and are not touched)
SaveTaxon(st, obj) ==
  [st EXCEPT !.taxon =
     {IF r.id = obj.id
        THEN [r EXCEPT !.name = obj.name, !.parent = obj.parent,
                       !.synonym_of = obj.synonym_of]
        ELSE r : r \in @}]

\* a lookup that never finds a row of that name
TaxonByName_never(st, name) == None

\* Taxon.objects.filter(name=name).first()
TaxonByName(st, name) == First({r \in st.taxon : r.name = name})

\* first pass of import_taxa, one record: reuse by name or create without
\* parent, register, remember the object, link to the project
import_taxa_body(st, maps, objs, taxon_data, proj) ==
  LET found == TaxonByName(st, taxon_data.name)
      new == NewId(st.taxon)
      pk == IF found # None THEN found ELSE new
      st1 == IF found # None THEN st
             ELSE [st EXCEPT !.taxon = @ \cup {[id |-> new, name |-> taxon_data.name,
                                               parent |-> None, synonym_of |-> None,
                                               projects |-> {}]}]
      st2 == [st1 EXCEPT !.taxon =
                {IF r.id = pk THEN [r EXCEPT !.projects = @ \cup {proj}] ELSE r : r \in @}]
  IN  [st |-> st2, maps |-> Register(maps, "taxon", taxon_data.id, pk),
       objs |-> Put(objs, taxon_data.id, TaxonObject(Row(st1.taxon, pk))), skip |-> FALSE]

\* the parent the second pass assigns for a record: None when it assigns none
ResolvedParent(maps, obj, taxon_data) ==
  IF Falsy(taxon_data.parent_id) THEN None ELSE Get(maps.taxon, taxon_data.parent_id)

ResolvedSynonym(maps, obj, taxon_data) ==
  IF Falsy(taxon_data.synonym_of_id) THEN None ELSE Get(maps.taxon, taxon_data.synonym_of_id)

\* a second pass that assigns whatever the references resolve to, null included
import_taxa_parents_body_always_assign(st, maps, objs, taxon_data) ==
  LET obj == [objs[taxon_data.id] EXCEPT
                !.parent = Get(maps.taxon, taxon_data.parent_id),
                !.synonym_of = Get(maps.taxon, taxon_data.synonym_of_id)]
  IN  [st |-> SaveTaxon(st, obj), maps |-> maps, objs |-> Put(objs, taxon_data.id, obj),
       skip |-> FALSE]

\* second pass of import_taxa, one record
import_taxa_parents_body(st, maps, objs, taxon_data) ==
  LET obj0 == objs[taxon_data.id]
      parent_id == ResolvedParent(maps, obj0, taxon_data)
      obj1 == IF Falsy(parent_id) THEN obj0 ELSE [obj0 EXCEPT !.parent = parent_id]
      st1 == IF Falsy(parent_id) THEN st ELSE SaveTaxon(st, obj1)
      synonym_id == ResolvedSynonym(maps, obj1, taxon_data)
      obj2 == IF Falsy(synonym_id) THEN obj1 ELSE [obj1 EXCEPT !.synonym_of = synonym_id]
      st2 == IF Falsy(synonym_id) THEN st1 ELSE SaveTaxon(st1, obj2)
  IN  [st |-> st2, maps |-> maps, objs |-> Put(objs, taxon_data.id, obj2), skip |-> FALSE]

\* a resolution that keeps the None of the ids that do not resolve
ResolveAll_with_none(m, ids) == {Get(m, old) : old \in ids}

\* [id_map.get(old) for old in ids], None values filtered out
ResolveAll(m, ids) == {Get(m, old) : old \in ids} \ {None}

import_taxa_lists_body(st, maps, taxa_list_data, proj) ==
  LET new == NewId(st.taxa_list)
      row == [id |-> new, name |-> taxa_list_data.name, projects |-> {proj},
              taxa |-> ResolveAll(maps.taxon, taxa_list_data.taxa_ids)]
  IN  Res([st EXCEPT !.taxa_list = @ \cup {row}],
          Register(maps, "taxa_list", taxa_list_data.id, new), FALSE)

import_tags_body(st, maps, tag_data, proj) ==
  LET new == NewId(st.tag)
      row == [id |-> new, project |-> proj, name |-> tag_data.name,
              taxa |-> ResolveAll(maps.taxon, tag_data.taxa_ids)]
  IN  Res([st EXCEPT !.tag = @ \cup {row}],
          Register(maps, "tag", tag_data.id, new), FALSE)

\* a loop that also drops the images that have no event
SourceImageSkipped_event(deployment_id, event_id) ==
  Falsy(deployment_id) \/ Falsy(event_id)

\* `if not deployment_id: continue` (event_id is resolved too, and not tested)
SourceImageSkipped(deployment_id, event_id) == Falsy(deployment_id)

import_source_images_body(st, maps, img_data, proj) ==
  LET deployment_id == Get(maps.deployment, img_data.deployment_id)
      event_id == Get(maps.event, img_data.event_id)
      new == NewId(st.source_image)
  IN  IF SourceImageSkipped(deployment_id, event_id) THEN Res(st, maps, TRUE)
      ELSE Res([st EXCEPT !.source_image =
                  @ \cup {[id |-> new, project |-> proj, deployment |-> deployment_id,
                           event |-> event_id]}],
               Register(maps, "source_image", img_data.id, new), FALSE)

import_collections_body(st, maps, collection_data, proj) ==
  LET new == NewId(st.collection)
      row == [id |-> new, project |-> proj, name |-> collection_data.name,
              images |-> ResolveAll(maps.source_image, collection_data.image_ids)]
  IN  Res([st EXCEPT !.collection = @ \cup {row}],
          Register(maps, "collection", collection_data.id, new), FALSE)

\* a lookup that never finds the existing algorithm
AlgorithmByKey_never(st, key, version) == None

\* Algorithm.objects.filter(key=key, version=version).first()
AlgorithmByKey(st, key, version) ==
  First({r \in st.algorithm : r.key = key /\ r.version = version})

import_algorithms_body(st, maps, algo_data, proj) ==
  LET found == AlgorithmByKey(st, algo_data.key, algo_data.version)
      has_map == algo_data.category_map_data # NoData
      cm_found == First({c \in st.category_map : c.data = algo_data.category_map_data})
      cm_new == NewId(st.category_map)
      category_map == IF ~has_map THEN None
                      ELSE IF cm_found # None THEN cm_found ELSE cm_new
      st1 == IF has_map /\ cm_found = None
             THEN [st EXCEPT !.category_map =
                     @ \cup {[id |-> cm_new, data |-> algo_data.category_map_data]}]
             ELSE st
      new == NewId(st.algorithm)
  IN  IF found # None THEN Res(st, Register(maps, "algorithm", algo_data.id, found), FALSE)
      ELSE Res([st1 EXCEPT !.algorithm =
                  @ \cup {[id |-> new, key |-> algo_data.key, version |-> algo_data.version,
                           category_map |-> category_map]}],
               Register(maps, "algorithm", algo_data.id, new), FALSE)

\* `if not event_id or not deployment_id: continue`
OccurrenceSkipped(event_id, deployment_id) == Falsy(event_id) \/ Falsy(deployment_id)

import_occurrences_body(st, maps, occ_data, proj) ==
  LET event_id == Get(maps.event, occ_data.event_id)
      deployment_id == Get(maps.deployment, occ_data.deployment_id)
      determination_id == Get(maps.taxon, occ_data.determination_id)
      new == NewId(st.occurrence)
  IN  IF OccurrenceSkipped(event_id, deployment_id) THEN Res(st, maps, TRUE)
      ELSE Res([st EXCEPT !.occurrence =
                  @ \cup {[id |-> new, project |-> proj, event |-> event_id,
                           deployment |-> deployment_id,
                           determination |-> determination_id, saves |-> 0]}],
               Register(maps, "occurrence", occ_data.id, new), FALSE)

\* `if not source_image_id: continue`
DetectionSkipped(source_image_id) == Falsy(source_image_id)

import_detections_body(st, maps, det_data, proj) ==
  LET source_image_id == Get(maps.source_image, det_data.source_image_id)
      occurrence_id == Get(maps.occurrence, det_data.occurrence_id)
      algorithm_id == Get(maps.algorithm, det_data.detection_algorithm_id)
      new == NewId(st.detection)
  IN  IF DetectionSkipped(source_image_id) THEN Res(st, maps, TRUE)
      ELSE Res([st EXCEPT !.detection =
                  @ \cup {[id |-> new, source_image |-> source_image_id,
                           occurrence |-> occurrence_id,
                           detection_algorithm |-> algorithm_id]}],
               Register(maps, "detection", det_data.id, new), FALSE)

\* `if not detection_id: continue`
ClassificationSkipped(detection_id) == Falsy(detection_id)

import_classifications_body(st, maps, cls_data, proj) ==
  LET detection_id == Get(maps.detection, cls_data.detection_id)
      taxon_id == Get(maps.taxon, cls_data.taxon_id)
      algorithm_id == Get(maps.algorithm, cls_data.algorithm_id)
      new == NewId(st.classification)
  IN  IF ClassificationSkipped(detection_id) THEN Res(st, maps, TRUE)
      ELSE Res([st EXCEPT !.classification =
                  @ \cup {[id |-> new, detection |-> detection_id, taxon |-> taxon_id,
                           algorithm |-> algorithm_id]}],
               Register(maps, "classification", cls_data.id, new), FALSE)

\* `if not occurrence_id: continue`
IdentificationSkipped(occurrence_id) == Falsy(occurrence_id)

\* an importer that keeps the author the source project recorded
IdentificationUser_source(user, id_data) == "alice"

\* user=user: the importing user
IdentificationUser(user, id_data) == user

\* an importer that keeps the document's id where the agreement does not resolve
import_identifications_body_raw_agreement(st, maps, id_data, proj, user) ==
  LET occurrence_id == Get(maps.occurrence, id_data.occurrence_id)
      resolved == Get(maps.identification, id_data.agreed_with_identification_id)
      new == NewId(st.identification)
  IN  IF IdentificationSkipped(occurrence_id) THEN Res(st, maps, TRUE)
      ELSE Res([st EXCEPT !.identification =
                  @ \cup {[id |-> new, user |-> IdentificationUser(user, id_data),
                           occurrence |-> occurrence_id,
                           taxon |-> Get(maps.taxon, id_data.taxon_id),
                           agreed_with_identification |->
                             IF resolved = None THEN id_data.agreed_with_identification_id
                             ELSE resolved,
                           agreed_with_prediction |->
                             Get(maps.classification, id_data.agreed_with_prediction_id)]}],
               Register(maps, "identification", id_data.id, new), FALSE)

import_identifications_body(st, maps, id_data, proj, user) ==
  LET occurrence_id == Get(maps.occurrence, id_data.occurrence_id)
      taxon_id == Get(maps.taxon, id_data.taxon_id)
      agreed_with_identification_id ==
        Get(maps.identification, id_data.agreed_with_identification_id)
      agreed_with_prediction_id ==
        Get(maps.classification, id_data.agreed_with_prediction_id)
      new == NewId(st.identification)
  IN  IF IdentificationSkipped(occurrence_id) THEN Res(st, maps, TRUE)
      ELSE Res([st EXCEPT !.identification =
                  @ \cup {[id |-> new, user |-> IdentificationUser(user, id_data),
                           occurrence |-> occurrence_id, taxon |-> taxon_id,
                           agreed_with_identification |-> agreed_with_identification_id,
                           agreed_with_prediction |-> agreed_with_prediction_id]}],
               Register(maps, "identification", id_data.id, new), FALSE)

\* an importer that creates the service without looking it up
import_processing_services_body_always_create(st, maps, service_data, proj) ==
  LET new == NewId(st.processing_service)
  IN  Res([st EXCEPT !.processing_service =
             @ \cup {[id |-> new, endpoint_url |-> service_data.endpoint_url,
                      projects |-> {proj}]}],
          Register(maps, "processing_service", service_data.id, new), FALSE)

import_processing_services_body(st, maps, service_data, proj) ==
  LET found == First({r \in st.processing_service :
                        r.endpoint_url = service_data.endpoint_url})
      new == NewId(st.processing_service)
      pk == IF found # None THEN found ELSE new
      st1 == IF found # None THEN st
             ELSE [st EXCEPT !.processing_service =
                     @ \cup {[id |-> new, endpoint_url |-> service_data.endpoint_url,
                              projects |-> {}]}]
      st2 == [st1 EXCEPT !.processing_service =
                {IF r.id = pk THEN [r EXCEPT !.projects = @ \cup {proj}] ELSE r : r \in @}]
  IN  Res(st2, Register(maps, "processing_service", service_data.id, pk), FALSE)

\* an importer that sets the algorithms of the pipeline it reuses as well
import_pipelines_body_set_on_reuse(st, maps, pipeline_data, proj) ==
  LET found == First({r \in st.pipeline :
                        r.name = pipeline_data.name /\ r.version = pipeline_data.version})
      new == NewId(st.pipeline)
      algorithms == ResolveAll(maps.algorithm, pipeline_data.algorithm_ids)
  IN  IF found # None
        THEN Res([st EXCEPT !.pipeline =
                    {IF r.id = found THEN [r EXCEPT !.algorithms = algorithms] ELSE r :
                       r \in @}],
                 Register(maps, "pipeline", pipeline_data.id, found), FALSE)
        ELSE Res([st EXCEPT !.pipeline =
                    @ \cup {[id |-> new, name |-> pipeline_data.name,
                             version |-> pipeline_data.version, algorithms |-> algorithms]}],
                 Register(maps, "pipeline", pipeline_data.id, new), FALSE)

import_pipelines_body(st, maps, pipeline_data, proj) ==
  LET found == First({r \in st.pipeline :
                        r.name = pipeline_data.name /\ r.version = pipeline_data.version})
      new == NewId(st.pipeline)
  IN  IF found # None THEN Res(st, Register(maps, "pipeline", pipeline_data.id, found), FALSE)
      ELSE Res([st EXCEPT !.pipeline =
                  @ \cup {[id |-> new, name |-> pipeline_data.name,
                           version |-> pipeline_data.version,
                           algorithms |-> ResolveAll(maps.algorithm, pipeline_data.algorithm_ids)]}],
               Register(maps, "pipeline", pipeline_data.id, new), FALSE)

\* `if not pipeline_id: continue`
PipelineConfigSkipped(pipeline_id) == Falsy(pipeline_id)

import_pipeline_configs_body(st, maps, config_data, proj) ==
  LET pipeline_id == Get(maps.pipeline, config_data.pipeline_id)
      found == First({r \in st.pipeline_config :
                        r.project = proj /\ r.pipeline = pipeline_id})
      new == NewId(st.pipeline_config)
  IN  IF PipelineConfigSkipped(pipeline_id) THEN Res(st, maps, TRUE)
      ELSE IF found # None
        THEN Res(st, Register(maps, "pipeline_config", config_data.id, found), FALSE)
        ELSE Res([st EXCEPT !.pipeline_config =
                    @ \cup {[id |-> new, project |-> proj, pipeline |-> pipeline_id]}],
                 Register(maps, "pipeline_config", config_data.id, new), FALSE)

\* Occurrence.save() recomputes the determination from the occurrence's
\* identifications, else from the classifications of its detections, else
\* leaves it as it is.
Determination(st, occ) ==
  LET idents == {i \in st.identification : i.occurrence = occ.id}
      preds == {c \in st.classification :
                  \E d \in st.detection : d.id = c.detection /\ d.occurrence = occ.id}
  IN  IF idents # {} THEN Row(idents, MaxOf(Ids(idents))).taxon
      ELSE IF preds # {} THEN Row(preds, MaxOf(Ids(preds))).taxon
      ELSE occ.determination

\* a reconciliation pass that saves nothing
update_occurrences_body_none(st, proj) == st

\* for occurrence in Occurrence.objects.filter(project=project): occurrence.save()
update_occurrences_body(st, proj) ==
  [st EXCEPT !.occurrence =
     {IF o.project = proj
        THEN [o EXCEPT !.determination = Determination(st, o), !.saves = @ + 1]
        ELSE o : o \in @}]

\* the writes of import_data outside any transaction: each is durable at once
AtomicExit_autocommit(committed, working, raised) == working

\* `with transaction.atomic():` what is durable when the block is left
AtomicExit(committed, working, raised) == IF raised THEN committed ELSE working

\* print_summary: one line per kind with len(self.id_maps[kind])
SummaryKinds ==
  <<"site", "device", "storage_source", "deployment", "event", "source_image",
    "collection", "taxon", "taxa_list", "tag", "detection", "classification",
    "occurrence", "identification", "algorithm", "pipeline", "processing_service",
    "pipeline_config">>

Line(label, n) == [label |-> label, n |-> n]

print_summary_lines(maps) ==
  [i \in DOMAIN SummaryKinds |->
     Line(SummaryKinds[i], Cardinality(DOMAIN maps[SummaryKinds[i]]))]

\* ---------------------------------------------------------------- documents
\* A document that did not come unchanged out of export_project: the exported
\* document with one record changed by hand.
Edits == {"taxon_self_parent", "event_bad_deployment", "image_bad_deployment",
          "detection_bad_image", "occurrence_no_event", "config_bad_pipeline",
          "deployment_repeated_id", "config_repeated_pipeline", "not_json",
          "identification_references"}

\* what is known of a file that json.load cannot decode
NotJson == [export_version |-> "malformed"]

ApplyEdit(e, d) ==
  CASE e = "taxon_self_parent" ->
         [d EXCEPT !.taxa[Len(d.taxa)].parent_id = d.taxa[Len(d.taxa)].id]
    [] e = "event_bad_deployment" -> [d EXCEPT !.events[1].deployment_id = 99]
    [] e = "image_bad_deployment" -> [d EXCEPT !.source_images[1].deployment_id = 99]
    [] e = "detection_bad_image" -> [d EXCEPT !.detections[1].source_image_id = 99]
    [] e = "occurrence_no_event" -> [d EXCEPT !.occurrences[1].event_id = None]
    [] e = "config_bad_pipeline" -> [d EXCEPT !.pipeline_configs[1].pipeline_id = 99]
    [] e = "deployment_repeated_id" ->
         [d EXCEPT !.deployments[2].id = d.deployments[1].id]
    [] e = "config_repeated_pipeline" ->
         LET configs == d.pipeline_configs
             id == MaxOf({configs[i].id : i \in DOMAIN configs}) + 1
         IN  [d EXCEPT !.pipeline_configs = Append(configs, [configs[1] EXCEPT !.id = id])]
    [] e = "not_json" -> NotJson
    [] e = "identification_references" ->
         \* agreements with a later record, with the record itself, of a record
         \* that is skipped, with a skipped record, and with an earlier record
         LET a == d.identifications[1]
             b == d.identifications[2]
         IN  [d EXCEPT !.identifications =
                <<[a EXCEPT !.agreed_with_identification_id = b.id],
                  [b EXCEPT !.agreed_with_identification_id = b.id],
                  [a EXCEPT !.id = b.id + 1, !.occurrence_id = 99],
                  [b EXCEPT !.id = b.id + 2, !.agreed_with_identification_id = b.id + 1],
                  [b EXCEPT !.id = b.id + 3, !.agreed_with_identification_id = a.id]>>]

NoDoc == [export_version |-> "none"]

NoOpts == [user |-> "", project_name |-> NoName, skip_images |-> FALSE, skip_ml_data |-> FALSE]

NoFault == [at |-> "", wrote |-> FALSE]

\* ------------------------------------------------------------------ actions
Init ==
  /\ \E parentLinked \in BOOLEAN : db = SourceStore(parentLinked)
  /\ tx = db
  /\ pre = db
  /\ doc = NoDoc
  /\ docsrc = [kind |-> "none", store |-> EmptyStore, project |-> None]
  /\ pc = "idle"
  /\ idx = 1
  /\ id_maps = InitIdMaps
  /\ taxa_by_old_id = EmptyMap
  /\ opts = NoOpts
  /\ project = None
  /\ out = << >>
  /\ dropped = 0
  /\ fault = NoFault
  /\ instance = "source"
  /\ log = << >>
  /\ nimports = 0

NotRunning == pc \in {"idle", "done", "aborted", "fatal", "export_failed"}

\* the project names the export command is given: one of a project, and one no
\* project has
ExportNames == {Name("A"), Name("Nonexistent Project")}

\* export_project.Command.handle for a project name that resolves
export_handle ==
  /\ NotRunning /\ docsrc.kind = "none"
  /\ \E project_name \in ExportNames : \E r \in db.project :
       /\ r.name = project_name
       /\ doc' = build_export_data(db, r.id)
       /\ docsrc' = [kind |-> "exported", store |-> db, project |-> r.id]
  /\ UNCHANGED <<db, tx, pre, pc, idx, id_maps, taxa_by_old_id, opts, project,
                 out, dropped, fault, instance, log, nimports>>

\* an export that makes the project it was asked for when there is none
export_handle_fatal_get_or_create ==
  /\ NotRunning /\ docsrc.kind = "none"
  /\ \E project_name \in ExportNames :
       /\ \A r \in db.project : r.name # project_name
       /\ db' = [db EXCEPT !.project =
                   @ \cup {[id |-> NewId(@), name |-> project_name, owner |-> "alice",
                            members |-> {}]}]
  /\ pc' = "export_failed"
  /\ UNCHANGED <<tx, pre, doc, docsrc, idx, id_maps, taxa_by_old_id, opts, project,
                 out, dropped, fault, instance, log, nimports>>

\* export_project.Command.handle for a project name no project has:
\* Project.objects.get raises DoesNotExist, handle raises CommandError before
\* build_export_data and before the output file is opened
export_handle_fatal ==
  /\ NotRunning /\ docsrc.kind = "none"
  /\ \E project_name \in ExportNames : \A r \in db.project : r.name # project_name
  /\ pc' = "export_failed"
  /\ UNCHANGED <<db, tx, pre, doc, docsrc, idx, id_maps, taxa_by_old_id, opts, project,
                 out, dropped, fault, instance, log, nimports>>

\* the exported file is changed by hand before it is imported
EditDocument ==
  /\ NotRunning /\ docsrc.kind = "exported" /\ nimports = 0
  /\ \E e \in Edits :
       /\ doc' = ApplyEdit(e, doc)
       /\ docsrc' = [docsrc EXCEPT !.kind = e]
  /\ UNCHANGED <<db, tx, pre, pc, idx, id_maps, taxa_by_old_id, opts, project,
                 out, dropped, fault, instance, log, nimports>>

\* the document is carried to another database instance
SwitchInstance ==
  /\ NotRunning /\ docsrc.kind # "none" /\ nimports = 0 /\ instance = "source"
  /\ db' = FreshStore /\ tx' = FreshStore /\ pre' = FreshStore
  /\ instance' = "other"
  /\ UNCHANGED <<doc, docsrc, pc, idx, id_maps, taxa_by_old_id, opts, project,
                 out, dropped, fault, log, nimports>>

\* the users the import command is run as
ImportingUsers == {"bob"}

\* the --user values the command is given: e-mails of users, and one that no
\* user has
GivenEmails == ImportingUsers \cup {"nobody"}

\* a handle that does not look the user up
FatalReason_no_user_lookup(kind, email) ==
  IF kind = "none" THEN "file" ELSE IF kind = "not_json" THEN "json" ELSE ""

\* what makes handle raise before it opens the transaction, in the order of
\* its checks: the input file does not exist, User.objects.get finds no user,
\* json.load cannot decode the file; "" when nothing does
FatalReason(kind, email) ==
  IF kind = "none" THEN "file"
  ELSE IF email \notin Users THEN "user"
  ELSE IF kind = "not_json" THEN "json"
  ELSE ""

ProjectNameOptions == {NoName, Name("B")}

\* a command object that outlives its invocation and keeps its maps
FreshIdMaps_kept(previous) == previous

\* The id maps of the Command object that serves an invocation: every
\* invocation constructs its own Command, whose __init__ makes the maps empty,
\* whatever the maps of the previous Command held.
FreshIdMaps(previous) == InitIdMaps

\* import_project.Command.handle up to the opening of the transaction
import_handle ==
  /\ NotRunning
  /\ nimports < (IF docsrc.kind = "exported" THEN MaxImports ELSE MaxEditedImports)
  /\ \E email \in GivenEmails, pn \in ProjectNameOptions, si \in BOOLEAN, sm \in BOOLEAN :
       /\ FatalReason(docsrc.kind, email) = ""
       /\ opts' = [user |-> email, project_name |-> pn, skip_images |-> si,
                   skip_ml_data |-> sm]
  /\ pc' = "project"
  /\ idx' = 1
  /\ id_maps' = FreshIdMaps(id_maps)
  /\ taxa_by_old_id' = EmptyMap
  /\ project' = None
  /\ out' = << >>
  /\ dropped' = 0
  /\ fault' = NoFault
  /\ pre' = db
  /\ tx' = db
  /\ nimports' = nimports + 1
  /\ UNCHANGED <<db, doc, docsrc, instance, log>>

\* an import_data whose ML block starts with the occurrences
AfterImages_no_algorithms(o) ==
  IF ~o.skip_ml_data /\ ~o.skip_images THEN "occurrences" ELSE "processing_services"

\* an import_data whose ML block looks at skip_images only
AfterImages_no_ml_flag(o) == IF ~o.skip_images THEN "algorithms" ELSE "processing_services"

\* an import_data that imports the images whatever the flag says
AfterTags_no_flag(o) == "source_images"

\* import_project.Command.handle raising before the transaction is opened
import_handle_fatal ==
  /\ NotRunning
  /\ \E email \in GivenEmails :
       /\ FatalReason(docsrc.kind, email) # ""
       /\ fault' = [at |-> FatalReason(docsrc.kind, email), wrote |-> FALSE]
       /\ opts' = [NoOpts EXCEPT !.user = email]
  /\ pc' = "fatal"
  /\ idx' = 1
  /\ id_maps' = InitIdMaps
  /\ taxa_by_old_id' = EmptyMap
  /\ project' = None
  /\ out' = << >>
  /\ dropped' = 0
  /\ pre' = db
  /\ tx' = db
  /\ UNCHANGED <<db, doc, docsrc, instance, log, nimports>>

\* where import_data goes after the tags / after the image block
AfterImages(o) ==
  IF ~o.skip_ml_data /\ ~o.skip_images THEN "algorithms" ELSE "processing_services"

AfterTags(o) == IF ~o.skip_images THEN "source_images" ELSE AfterImages(o)

\* One pass of a handler's `for record in data:` loop, or, when the list is
\* exhausted, its closing line "Imported {len(data)} <kind>" and the move to
\* the next handler of import_data.
LoopStep(phase, data, body(_), next) ==
  /\ pc = phase
  /\ IF idx <= Len(data)
       THEN LET r == body(data[idx])
            IN  /\ tx' = r.st
                /\ id_maps' = r.maps
                /\ dropped' = dropped + (IF r.skip THEN 1 ELSE 0)
                /\ idx' = idx + 1
                /\ UNCHANGED <<pc, out>>
       ELSE /\ pc' = next
            /\ idx' = 1
            /\ out' = Append(out, Line(phase, Len(data)))
            /\ UNCHANGED <<tx, id_maps, dropped>>
  /\ UNCHANGED <<db, pre, doc, docsrc, opts, project, fault, instance, log, nimports>>

import_project ==
  /\ pc = "project"
  /\ LET r == import_project_body(tx, id_maps, doc.project, opts)
     IN  /\ tx' = r.st
         /\ id_maps' = r.maps
         /\ project' = r.maps.project[doc.project.id]
  /\ pc' = "sites"
  /\ UNCHANGED <<db, pre, doc, docsrc, idx, taxa_by_old_id, opts, out, dropped,
                 fault, instance, log, nimports>>

import_sites ==
  LET body(rec) == import_sites_body(tx, id_maps, rec, project)
  IN  LoopStep("sites", doc.sites, body, "devices") /\ UNCHANGED taxa_by_old_id

import_devices ==
  LET body(rec) == import_devices_body(tx, id_maps, rec, project)
  IN  LoopStep("devices", doc.devices, body, "storage_sources") /\ UNCHANGED taxa_by_old_id

import_storage_sources ==
  LET body(rec) == import_storage_sources_body(tx, id_maps, rec, project)
  IN  LoopStep("storage_sources", doc.storage_sources, body, "deployments")
      /\ UNCHANGED taxa_by_old_id

import_deployments ==
  LET body(rec) == import_deployments_body(tx, id_maps, rec, project)
  IN  LoopStep("deployments", doc.deployments, body, "events") /\ UNCHANGED taxa_by_old_id

import_events ==
  LET body(rec) == import_events_body(tx, id_maps, rec, project)
  IN  LoopStep("events", doc.events, body, "taxa") /\ UNCHANGED taxa_by_old_id

\* import_taxa, first loop
import_taxa ==
  /\ pc = "taxa"
  /\ IF idx <= Len(doc.taxa)
       THEN LET r == import_taxa_body(tx, id_maps, taxa_by_old_id, doc.taxa[idx], project)
            IN  /\ tx' = r.st
                /\ id_maps' = r.maps
                /\ taxa_by_old_id' = r.objs
                /\ idx' = idx + 1
                /\ pc' = pc
       ELSE /\ pc' = "taxa_parents"
            /\ idx' = 1
            /\ UNCHANGED <<tx, id_maps, taxa_by_old_id>>
  /\ UNCHANGED <<db, pre, doc, docsrc, opts, project, out, dropped, fault,
                 instance, log, nimports>>

\* import_taxa, second loop
import_taxa_parents ==
  /\ pc = "taxa_parents"
  /\ IF idx <= Len(doc.taxa)
       THEN LET r == import_taxa_parents_body(tx, id_maps, taxa_by_old_id, doc.taxa[idx])
            IN  /\ tx' = r.st
                /\ taxa_by_old_id' = r.objs
                /\ idx' = idx + 1
                /\ UNCHANGED <<pc, out>>
       ELSE /\ pc' = "taxa_lists"
            /\ idx' = 1
            /\ out' = Append(out, Line("taxa", Len(doc.taxa)))
            /\ UNCHANGED <<tx, taxa_by_old_id>>
  /\ UNCHANGED <<db, pre, doc, docsrc, id_maps, opts, project, dropped, fault,
                 instance, log, nimports>>

import_taxa_lists ==
  LET body(rec) == import_taxa_lists_body(tx, id_maps, rec, project)
  IN  LoopStep("taxa_lists", doc.taxa_lists, body, "tags") /\ UNCHANGED taxa_by_old_id

import_tags ==
  LET body(rec) == import_tags_body(tx, id_maps, rec, project)
  IN  LoopStep("tags", doc.tags, body, AfterTags(opts)) /\ UNCHANGED taxa_by_old_id

import_source_images ==
  LET body(rec) == import_source_images_body(tx, id_maps, rec, project)
  IN  LoopStep("source_images", doc.source_images, body, "collections")
      /\ UNCHANGED taxa_by_old_id

import_collections ==
  LET body(rec) == import_collections_body(tx, id_maps, rec, project)
  IN  LoopStep("collections", doc.collections, body, AfterImages(opts))
      /\ UNCHANGED taxa_by_old_id

import_algorithms ==
  LET body(rec) == import_algorithms_body(tx, id_maps, rec, project)
  IN  LoopStep("algorithms", doc.algorithms, body, "occurrences") /\ UNCHANGED taxa_by_old_id

import_occurrences ==
  LET body(rec) == import_occurrences_body(tx, id_maps, rec, project)
  IN  LoopStep("occurrences", doc.occurrences, body, "detections") /\ UNCHANGED taxa_by_old_id

import_detections ==
  LET body(rec) == import_detections_body(tx, id_maps, rec, project)
  IN  LoopStep("detections", doc.detections, body, "classifications")
      /\ UNCHANGED taxa_by_old_id

import_classifications ==
  LET body(rec) == import_classifications_body(tx, id_maps, rec, project)
  IN  LoopStep("classifications", doc.classifications, body, "identifications")
      /\ UNCHANGED taxa_by_old_id

import_identifications ==
  LET body(rec) == import_identifications_body(tx, id_maps, rec, project, opts.user)
  IN  LoopStep("identifications", doc.identifications, body, "update_occurrences")
      /\ UNCHANGED taxa_by_old_id

update_occurrences ==
  /\ pc = "update_occurrences"
  /\ tx' = update_occurrences_body(tx, project)
  /\ pc' = "processing_services"
  /\ UNCHANGED <<db, pre, doc, docsrc, idx, id_maps, taxa_by_old_id, opts, project,
                 out, dropped, fault, instance, log, nimports>>

import_processing_services ==
  LET body(rec) == import_processing_services_body(tx, id_maps, rec, project)
  IN  LoopStep("processing_services", doc.processing_services, body, "pipelines")
      /\ UNCHANGED taxa_by_old_id

import_pipelines ==
  LET body(rec) == import_pipelines_body(tx, id_maps, rec, project)
  IN  LoopStep("pipelines", doc.pipelines, body, "pipeline_configs")
      /\ UNCHANGED taxa_by_old_id

import_pipeline_configs ==
  LET body(rec) == import_pipeline_configs_body(tx, id_maps, rec, project)
  IN  LoopStep("pipeline_configs", doc.pipeline_configs, body, "commit")
      /\ UNCHANGED taxa_by_old_id

\* import_data returned: the atomic block is left without an exception
atomic_commit ==
  /\ pc = "commit"
  /\ db' = AtomicExit(db, tx, FALSE)
  /\ log' = Append(log, [plain |-> ~opts.skip_images /\ ~opts.skip_ml_data,
                         project |-> project])
  /\ pc' = "summary"
  /\ UNCHANGED <<tx, pre, doc, docsrc, idx, id_maps, taxa_by_old_id, opts, project,
                 out, dropped, fault, instance, nimports>>

print_summary ==
  /\ pc = "summary"
  /\ out' = out \o print_summary_lines(id_maps)
  /\ pc' = "done"
  /\ UNCHANGED <<db, tx, pre, doc, docsrc, idx, id_maps, taxa_by_old_id, opts,
                 project, dropped, fault, instance, log, nimports>>

WritePhases ==
  {"project", "sites", "devices", "storage_sources", "deployments", "events", "taxa",
   "taxa_parents", "taxa_lists", "tags", "source_images", "collections", "algorithms",
   "occurrences", "detections", "classifications", "identifications",
   "update_occurrences", "processing_services", "pipelines", "pipeline_configs"}

\* a step of import_data raises: the exception leaves the atomic block and
\* ends the command; the Command object and its id maps are gone
atomic_raise ==
  /\ pc \in WritePhases
  /\ db' = AtomicExit(db, tx, TRUE)
  /\ tx' = db'
  /\ fault' = [at |-> pc, wrote |-> tx # db]
  /\ pc' = "aborted"
  /\ idx' = 1
  /\ id_maps' = InitIdMaps
  /\ taxa_by_old_id' = EmptyMap
  /\ project' = None
  /\ out' = << >>
  /\ dropped' = 0
  /\ UNCHANGED <<pre, doc, docsrc, opts, instance, log, nimports>>

Next ==
  \/ export_handle
  \/ export_handle_fatal
  \/ EditDocument
  \/ SwitchInstance
  \/ import_handle
  \/ import_handle_fatal
  \/ import_project
  \/ import_sites
  \/ import_devices
  \/ import_storage_sources
  \/ import_deployments
  \/ import_events
  \/ import_taxa
  \/ import_taxa_parents
  \/ import_taxa_lists
  \/ import_tags
  \/ import_source_images
  \/ import_collections
  \/ import_algorithms
  \/ import_occurrences
  \/ import_detections
  \/ import_classifications
  \/ import_identifications
  \/ update_occurrences
  \/ import_processing_services
  \/ import_pipelines
  \/ import_pipeline_configs
  \/ atomic_commit
  \/ print_summary
  \/ atomic_raise

Spec == Init /\ [][Next]_vars

\* --------------------------------------------------- two concurrent imports
\* Two invocations of the import command run at once against one database.
\* In this specification db is the committed store and tx, pc, idx, id_maps,
\* taxa_by_old_id, opts, project, out and dropped hold one value per
\* invocation; tx[p] is what the open transaction of p has written and not yet
\* committed; log is the sequence of transactions begun and committed.
Importers == {1, 2}

\* A row written by another open transaction, as a transaction sees it: the
\* primary key is taken from the table's sequence, and no lookup matches it.
Hidden(k, r) ==
  CASE k = "taxon" -> [r EXCEPT !.name = ""]
    [] k = "algorithm" -> [r EXCEPT !.key = ""]
    [] k = "category_map" -> [r EXCEPT !.data = NoData]
    [] k = "processing_service" -> [r EXCEPT !.endpoint_url = ""]
    [] k = "pipeline" -> [r EXCEPT !.name = ""]
    [] k = "project" -> [r EXCEPT !.name = NoName]
    [] OTHER -> r

\* a written row laid over the committed one: memberships are rows of another
\* table and add up, columns are replaced
MergeRow(old, new) ==
  IF "projects" \in DOMAIN new THEN [new EXCEPT !.projects = @ \cup old.projects] ELSE new

\* the committed rows with the writes of one transaction laid over them
Overlay(committed, own) ==
  [k \in DOMAIN committed |->
     {r \in committed[k] : r.id \notin Ids(own[k])}
       \cup {IF r.id \in Ids(committed[k]) THEN MergeRow(Row(committed[k], r.id), r) ELSE r :
               r \in own[k]}]

\* the rows of the other open transaction that are not committed
Uncommitted(committed, p, writes) ==
  LET q == CHOOSE x \in Importers : x # p
  IN  [k \in DOMAIN committed |-> {r \in writes[q][k] : r.id \notin Ids(committed[k])}]

\* what the statements of transaction p read: committed rows and its own writes
View(committed, p, writes) ==
  LET base == Overlay(committed, writes[p])
      others == Uncommitted(committed, p, writes)
  IN  [k \in DOMAIN base |-> base[k] \cup {Hidden(k, r) : r \in others[k]}]

\* the writes transaction p holds once its statements left st behind
Written(committed, p, writes, st) ==
  LET others == Uncommitted(committed, p, writes)
  IN  [k \in DOMAIN st |-> {r \in st[k] : r \notin committed[k] /\ r.id \notin Ids(others[k])}]

\* the records a handler loops over
Records(phase, d) == IF phase = "taxa_parents" THEN d.taxa ELSE d[phase]

\* the handler import_data calls after a handler
Following(phase, o) ==
  CASE phase = "sites" -> "devices"
    [] phase = "devices" -> "storage_sources"
    [] phase = "storage_sources" -> "deployments"
    [] phase = "deployments" -> "events"
    [] phase = "events" -> "taxa"
    [] phase = "taxa" -> "taxa_parents"
    [] phase = "taxa_parents" -> "taxa_lists"
    [] phase = "taxa_lists" -> "tags"
    [] phase = "tags" -> AfterTags(o)
    [] phase = "source_images" -> "collections"
    [] phase = "collections" -> AfterImages(o)
    [] phase = "algorithms" -> "occurrences"
    [] phase = "occurrences" -> "detections"
    [] phase = "detections" -> "classifications"
    [] phase = "classifications" -> "identifications"
    [] phase = "identifications" -> "update_occurrences"
    [] phase = "processing_services" -> "pipelines"
    [] phase = "pipelines" -> "pipeline_configs"
    [] phase = "pipeline_configs" -> "commit"

\* one pass of the loop of a handler, on the store st the transaction reads
Handle(phase, st, maps, objs, rec, proj, user) ==
  LET r == CASE phase = "sites" -> import_sites_body(st, maps, rec, proj)
             [] phase = "devices" -> import_devices_body(st, maps, rec, proj)
             [] phase = "storage_sources" -> import_storage_sources_body(st, maps, rec, proj)
             [] phase = "deployments" -> import_deployments_body(st, maps, rec, proj)
             [] phase = "events" -> import_events_body(st, maps, rec, proj)
             [] phase = "taxa" -> import_taxa_body(st, maps, objs, rec, proj)
             [] phase = "taxa_parents" -> import_taxa_parents_body(st, maps, objs, rec)
             [] phase = "taxa_lists" -> import_taxa_lists_body(st, maps, rec, proj)
             [] phase = "tags" -> import_tags_body(st, maps, rec, proj)
             [] phase = "source_images" -> import_source_images_body(st, maps, rec, proj)
             [] phase = "collections" -> import_collections_body(st, maps, rec, proj)
             [] phase = "algorithms" -> import_algorithms_body(st, maps, rec, proj)
             [] phase = "occurrences" -> import_occurrences_body(st, maps, rec, proj)
             [] phase = "detections" -> import_detections_body(st, maps, rec, proj)
             [] phase = "classifications" -> import_classifications_body(st, maps, rec, proj)
             [] phase = "identifications" ->
                  import_identifications_body(st, maps, rec, proj, user)
             [] phase = "processing_services" ->
                  import_processing_services_body(st, maps, rec, proj)
             [] phase = "pipelines" -> import_pipelines_body(st, maps, rec, proj)
             [] phase = "pipeline_configs" -> import_pipeline_configs_body(st, maps, rec, proj)
  IN  [st |-> r.st, maps |-> r.maps, skip |-> r.skip,
       objs |-> IF phase \in {"taxa", "taxa_parents"} THEN r.objs ELSE objs]

\* A source project that uses one row of every merge-by-natural-key table: a
\* taxon, an algorithm (named by a detection on its one image), a processing
\* service and a pipeline.
ReferenceStore ==
  [EmptyStore EXCEPT
     !.project = {[id |-> 1, name |-> Name("A"), owner |-> "alice", members |-> {"alice"}]},
     !.deployment = {[id |-> 1, project |-> 1, name |-> "d1", research_site |-> None,
                      device |-> None, data_source |-> None]},
     !.source_image = {[id |-> 1, project |-> 1, deployment |-> 1, event |-> None]},
     !.detection = {[id |-> 1, source_image |-> 1, occurrence |-> None,
                     detection_algorithm |-> 1]},
     !.taxon = {[id |-> 1, name |-> "Lepidoptera", parent |-> None, synonym_of |-> None,
                 projects |-> {1}]},
     !.algorithm = {[id |-> 1, key |-> "detector", version |-> 1, category_map |-> None]},
     !.processing_service = {[id |-> 1, endpoint_url |-> "http://ps", projects |-> {1}]},
     !.pipeline = {[id |-> 1, name |-> "pipe", version |-> 1, algorithms |-> {1}]},
     !.pipeline_config = {[id |-> 1, project |-> 1, pipeline |-> 1]}]

ConcurrentInit ==
  /\ \E s \in {FreshStore, ReferenceStore} :
       /\ db = s
       /\ pre = s
       /\ instance = IF s = FreshStore THEN "other" ELSE "source"
  /\ doc = build_export_data(ReferenceStore, 1)
  /\ docsrc = [kind |-> "exported", store |-> ReferenceStore, project |-> 1]
  /\ tx = [p \in Importers |-> EmptyStore]
  /\ pc = [p \in Importers |-> "idle"]
  /\ idx = [p \in Importers |-> 1]
  /\ id_maps = [p \in Importers |-> InitIdMaps]
  /\ taxa_by_old_id = [p \in Importers |-> EmptyMap]
  /\ opts = [p \in Importers |-> NoOpts]
  /\ project = [p \in Importers |-> None]
  /\ out = [p \in Importers |-> << >>]
  /\ dropped = [p \in Importers |-> 0]
  /\ fault = NoFault
  /\ log = << >>
  /\ nimports = 0

\* handle of invocation p opens its transaction
concurrent_handle(p) ==
  /\ pc[p] = "idle"
  /\ \E email \in ImportingUsers :
       opts' = [opts EXCEPT ![p] = [NoOpts EXCEPT !.user = email]]
  /\ pc' = [pc EXCEPT ![p] = "project"]
  /\ id_maps' = [id_maps EXCEPT ![p] = FreshIdMaps(@)]
  /\ log' = Append(log, [op |-> "begin", by |-> p])
  /\ UNCHANGED <<db, tx, pre, doc, docsrc, idx, taxa_by_old_id, project, out, dropped,
                 fault, instance, nimports>>

\* import_project of invocation p
concurrent_import_project(p) ==
  /\ pc[p] = "project"
  /\ LET r == import_project_body(View(db, p, tx), id_maps[p], doc.project, opts[p])
     IN  /\ tx' = [tx EXCEPT ![p] = Written(db, p, tx, r.st)]
         /\ id_maps' = [id_maps EXCEPT ![p] = r.maps]
         /\ project' = [project EXCEPT ![p] = r.maps.project[doc.project.id]]
  /\ pc' = [pc EXCEPT ![p] = "sites"]
  /\ UNCHANGED <<db, pre, doc, docsrc, idx, taxa_by_old_id, opts, out, dropped, fault,
                 instance, log, nimports>>

\* one pass of the loop of the handler invocation p is in, or its closing line
concurrent_import_step(p) ==
  /\ pc[p] \in WritePhases \ {"project", "update_occurrences"}
  /\ IF idx[p] <= Len(Records(pc[p], doc))
       THEN LET r == Handle(pc[p], View(db, p, tx), id_maps[p], taxa_by_old_id[p],
                            Records(pc[p], doc)[idx[p]], project[p], opts[p].user)
            IN  /\ tx' = [tx EXCEPT ![p] = Written(db, p, tx, r.st)]
                /\ id_maps' = [id_maps EXCEPT ![p] = r.maps]
                /\ taxa_by_old_id' = [taxa_by_old_id EXCEPT ![p] = r.objs]
                /\ dropped' = [dropped EXCEPT ![p] = @ + (IF r.skip THEN 1 ELSE 0)]
                /\ idx' = [idx EXCEPT ![p] = @ + 1]
                /\ UNCHANGED <<pc, out>>
       ELSE /\ pc' = [pc EXCEPT ![p] = Following(@, opts[p])]
            /\ idx' = [idx EXCEPT ![p] = 1]
            /\ out' = [out EXCEPT ![p] =
                         IF pc[p] = "taxa" THEN @
                         ELSE Append(@, Line(IF pc[p] = "taxa_parents" THEN "taxa" ELSE pc[p],
                                             Len(Records(pc[p], doc))))]
            /\ UNCHANGED <<tx, id_maps, taxa_by_old_id, dropped>>
  /\ UNCHANGED <<db, pre, doc, docsrc, opts, project, fault, instance, log, nimports>>

\* update_occurrences of invocation p
concurrent_update_occurrences(p) ==
  /\ pc[p] = "update_occurrences"
  /\ tx' = [tx EXCEPT ![p] =
              Written(db, p, tx, update_occurrences_body(View(db, p, tx), project[p]))]
  /\ pc' = [pc EXCEPT ![p] = "processing_services"]
  /\ UNCHANGED <<db, pre, doc, docsrc, idx, id_maps, taxa_by_old_id, opts, project, out,
                 dropped, fault, instance, log, nimports>>

\* the atomic block of invocation p is left without an exception
concurrent_commit(p) ==
  /\ pc[p] = "commit"
  /\ db' = AtomicExit(db, Overlay(db, tx[p]), FALSE)
  /\ tx' = [tx EXCEPT ![p] = EmptyStore]
  /\ log' = Append(log, [op |-> "commit", by |-> p])
  /\ pc' = [pc EXCEPT ![p] = "done"]
  /\ UNCHANGED <<pre, doc, docsrc, idx, id_maps, taxa_by_old_id, opts, project, out,
                 dropped, fault, instance, nimports>>

ConcurrentNext ==
  \/ \E p \in Importers : concurrent_handle(p)
  \/ \E p \in Importers : concurrent_import_project(p)
  \/ \E p \in Importers : concurrent_import_step(p)
  \/ \E p \in Importers : concurrent_update_occurrences(p)
  \/ \E p \in Importers : concurrent_commit(p)

ConcurrentSpec == ConcurrentInit /\ [][ConcurrentNext]_vars

\* ----------------------------------------- the project-name loop, step by step
\* import_project run statement by statement against any set of project names.
\* In this specification project holds the local `name`, idx the local
\* `counter`, and out the names the `while` condition has tested.

\* the highest suffix a project of the store carries
MaxSuffix == 3

\* names projects can have had before the import
ExistingNames ==
  {Name("A"), Name("B")} \cup {Suffixed(Name("A"), n) : n \in 1..MaxSuffix}

\* a store holding one project of each of the names given
NamedStore(names) ==
  LET pk(n) == IF n = Name("A") THEN 1 ELSE IF n = Name("B") THEN 2 ELSE 2 + n.sfx[1]
  IN  [EmptyStore EXCEPT
         !.project = {[id |-> pk(n), name |-> n, owner |-> "alice", members |-> {"alice"}] :
                        n \in names}]

\* the --project-name values given: none, a fresh one, one that carries a suffix
NameOptions == ProjectNameOptions \cup {Suffixed(Name("A"), 1)}

NameInit ==
  /\ \E names \in SUBSET ExistingNames : db = NamedStore(names)
  /\ tx = db
  /\ pre = db
  /\ doc = build_export_data(SourceStore(TRUE), 1)
  /\ docsrc = [kind |-> "exported", store |-> SourceStore(TRUE), project |-> 1]
  /\ \E pn \in NameOptions : opts = [NoOpts EXCEPT !.user = "bob", !.project_name = pn]
  /\ pc = "name_if"
  /\ idx = 1
  /\ id_maps = InitIdMaps
  /\ taxa_by_old_id = EmptyMap
  /\ project = NoName
  /\ out = << >>
  /\ dropped = 0
  /\ fault = NoFault
  /\ instance = "other"
  /\ log = << >>
  /\ nimports = 0

\* name = options.get("project_name") or project_data["name"]
GivenName(project_data, options) ==
  IF options.project_name # NoName THEN options.project_name ELSE project_data.name

\* `if Project.objects.filter(name=name).exists():` and the two assignments
\* under it
name_if ==
  /\ pc = "name_if"
  /\ project' = GivenName(doc.project, opts)
  /\ idx' = 1
  /\ pc' = IF project' \in ProjectNames(tx) THEN "name_while" ELSE "name_create"
  /\ UNCHANGED <<db, tx, pre, doc, docsrc, id_maps, taxa_by_old_id, opts, out, dropped,
                 fault, instance, log, nimports>>

\* one test of `while Project.objects.filter(name=name).exists():` and, when it
\* holds, the body of the loop
name_while ==
  /\ pc = "name_while"
  /\ out' = Append(out, project)
  /\ IF project \in ProjectNames(tx)
       THEN /\ project' = Suffixed(GivenName(doc.project, opts), idx)
            /\ idx' = idx + 1
            /\ pc' = pc
       ELSE UNCHANGED <<project, idx>> /\ pc' = "name_create"
  /\ UNCHANGED <<db, tx, pre, doc, docsrc, id_maps, taxa_by_old_id, opts, dropped,
                 fault, instance, log, nimports>>

\* Project.objects.create(name=name, ...)
name_create ==
  /\ pc = "name_create"
  /\ LET r == import_project_body(tx, id_maps, doc.project, opts)
     IN  tx' = r.st /\ id_maps' = r.maps
  /\ pc' = "sites"
  /\ UNCHANGED <<db, pre, doc, docsrc, idx, taxa_by_old_id, opts, project, out, dropped,
                 fault, instance, log, nimports>>

NameNext ==
  \/ name_if
  \/ name_while
  \/ name_create

\* the command is a running process: its next statement is executed
NameSpec == NameInit /\ [][NameNext]_vars /\ WF_vars(NameNext)

\* =================================================================== claims
\* the rows of a table that the running / last import added
New(st, base, kind) == {r \in st[kind] : r.id \notin Ids(base[kind])}

PlainOpts(o) == ~o.skip_images /\ ~o.skip_ml_data

\* C1: if any step of the import write sequence raises, the committed store
\* after the invocation is the store as it was when the invocation began; and
\* while the sequence runs nothing of it is committed yet.
C1_RollbackRestoresStore ==
  pc \in WritePhases \cup {"commit", "aborted"} => db = pre

\* an import that had created taxa, images and classifications in another
\* instance raised in the identification step, or in the reconciliation pass
C1_Witness ==
  /\ pc = "aborted" /\ fault.wrote /\ instance = "other"
  /\ fault.at \in {"identifications", "update_occurrences"}

RECURSIVE InProject(_, _, _, _)
\* the row `i` of `kind` exists and belongs to project p (directly, or through
\* the row that owns it)
InProject(st, kind, i, p) ==
  CASE kind = "detection" ->
         \E r \in st.detection : r.id = i /\ InProject(st, "source_image", r.source_image, p)
    [] kind = "classification" ->
         \E r \in st.classification : r.id = i /\ InProject(st, "detection", r.detection, p)
    [] kind = "identification" ->
         \E r \in st.identification : r.id = i /\ InProject(st, "occurrence", r.occurrence, p)
    [] OTHER -> \E r \in st[kind] : r.id = i /\ r.project = p

FkOk(st, fk, kind, p) == fk = None \/ InProject(st, kind, fk, p)

\* a reference to a global reference entity: null or an existing row
GlobalOk(st, fk, kind) == fk = None \/ fk \in Ids(st[kind])

ReferentialClosure(st, base, p) ==
  /\ \A r \in New(st, base, "deployment") :
       /\ FkOk(st, r.research_site, "site", p)
       /\ FkOk(st, r.device, "device", p)
       /\ FkOk(st, r.data_source, "storage_source", p)
  /\ \A r \in New(st, base, "event") : FkOk(st, r.deployment, "deployment", p)
  /\ \A r \in New(st, base, "source_image") :
       FkOk(st, r.deployment, "deployment", p) /\ FkOk(st, r.event, "event", p)
  /\ \A r \in New(st, base, "occurrence") :
       FkOk(st, r.event, "event", p) /\ FkOk(st, r.deployment, "deployment", p)
  /\ \A r \in New(st, base, "detection") :
       FkOk(st, r.source_image, "source_image", p) /\ FkOk(st, r.occurrence, "occurrence", p)
  /\ \A r \in New(st, base, "classification") :
       /\ FkOk(st, r.detection, "detection", p)
       /\ GlobalOk(st, r.taxon, "taxon") /\ GlobalOk(st, r.algorithm, "algorithm")
  /\ \A r \in New(st, base, "taxon") :
       GlobalOk(st, r.parent, "taxon") /\ GlobalOk(st, r.synonym_of, "taxon")
  /\ \A r \in New(st, base, "pipeline_config") : GlobalOk(st, r.pipeline, "pipeline")
  /\ \A r \in New(st, base, "identification") :
       /\ FkOk(st, r.occurrence, "occurrence", p)
       /\ FkOk(st, r.agreed_with_identification, "identification", p)
       /\ FkOk(st, r.agreed_with_prediction, "classification", p)

\* C2: after a successful import every foreign key of a row the import created
\* is null or points to an existing row of the destination project.
C2_ReferentialClosure ==
  pc \in {"summary", "done"} => ReferentialClosure(db, pre, project)

\* an import into the instance that also holds the source project, with
\* non-null references of every kind among the created rows
C2_Witness ==
  /\ pc = "done" /\ instance = "source"
  /\ \E r \in New(db, pre, "deployment") : r.research_site # None /\ r.device # None
  /\ \E r \in New(db, pre, "source_image") : r.event # None
  /\ \E r \in New(db, pre, "detection") : r.occurrence # None
  /\ \E r \in New(db, pre, "classification") : r.detection # None
  /\ \E r \in New(db, pre, "identification") : r.agreed_with_identification # None
  /\ \E r \in New(db, pre, "identification") : r.agreed_with_prediction # None

TwoPlainImports ==
  /\ pc = "done" /\ Len(log) = 2
  /\ log[1].plain /\ log[2].plain

OfProject(st, kind, p) == {r \in st[kind] : r.project = p}

\* C3: after the same document was imported twice with no skip flags there is
\* exactly one Taxon row per taxon name, one Algorithm row per key+version, one
\* ProcessingService row per endpoint and one Pipeline row per name+version of
\* the document, and two distinct projects, each with its own full set of
\* always-create rows.
C3_IdempotentReferenceMerge ==
  TwoPlainImports =>
    /\ \A i \in DOMAIN doc.taxa :
         Cardinality({r \in db.taxon : r.name = doc.taxa[i].name}) = 1
    /\ \A i \in DOMAIN doc.algorithms :
         Cardinality({r \in db.algorithm : r.key = doc.algorithms[i].key
                                           /\ r.version = doc.algorithms[i].version}) = 1
    /\ \A i \in DOMAIN doc.processing_services :
         Cardinality({r \in db.processing_service :
                        r.endpoint_url = doc.processing_services[i].endpoint_url}) = 1
    /\ \A i \in DOMAIN doc.pipelines :
         Cardinality({r \in db.pipeline : r.name = doc.pipelines[i].name
                                          /\ r.version = doc.pipelines[i].version}) = 1
    /\ log[1].project # log[2].project
    /\ {log[1].project, log[2].project} \subseteq Ids(db.project)
    /\ \A j \in 1..2 :
         /\ Cardinality(OfProject(db, "site", log[j].project)) = Len(doc.sites)
         /\ Cardinality(OfProject(db, "device", log[j].project)) = Len(doc.devices)
         /\ Cardinality(OfProject(db, "deployment", log[j].project)) = Len(doc.deployments)
         /\ Cardinality(OfProject(db, "tag", log[j].project)) = Len(doc.tags)
         /\ Cardinality(OfProject(db, "collection", log[j].project)) = Len(doc.collections)
    /\ \A k \in {"event", "source_image", "occurrence"} :
         Cardinality(OfProject(db, k, log[1].project))
           = Cardinality(OfProject(db, k, log[2].project))
    /\ docsrc.kind = "exported" =>
         Cardinality(OfProject(db, "source_image", log[1].project)
                       \cup OfProject(db, "source_image", log[2].project))
           = 2 * Len(doc.source_images)

\* the second of two plain imports of an exported document into an instance
\* that held none of its reference data before the first
C3_Witness ==
  /\ TwoPlainImports /\ instance = "other" /\ docsrc.kind = "exported"
  /\ Len(doc.taxa) > 1 /\ Len(doc.algorithms) > 1 /\ Len(doc.pipelines) > 0
  /\ Len(doc.source_images) > 1

\* count(K, project) as the tests query it
Count(st, kind, p) ==
  CASE kind \in {"taxon", "taxa_list", "processing_service"} ->
         Cardinality({r \in st[kind] : p \in r.projects})
    [] kind = "detection" -> Cardinality(ProjectDetections(st, p))
    [] kind = "classification" -> Cardinality(ProjectClassifications(st, p))
    [] kind = "identification" ->
         Cardinality({r \in st.identification : InProject(st, "occurrence", r.occurrence, p)})
    [] kind = "algorithm" ->
         Cardinality(({r.detection_algorithm : r \in ProjectDetections(st, p)}
                        \cup {r.algorithm : r \in ProjectClassifications(st, p)}) \ {None})
    [] kind = "pipeline" ->
         Cardinality({r.pipeline : r \in OfProject(st, "pipeline_config", p)})
    [] OTHER -> Cardinality(OfProject(st, kind, p))

CountedKinds == Kinds \ {"project", "category_map"}

\* C4: export followed by an import with no skip flags gives a destination
\* project with as many rows of every kind as the source project has.
C4_RoundTripCounts ==
  (pc = "done" /\ docsrc.kind = "exported" /\ PlainOpts(opts)) =>
    \A k \in CountedKinds :
      Count(db, k, project) = Count(docsrc.store, k, docsrc.project)

\* a first import of the exported document into an instance with no
\* pre-existing data, hence no natural-key collision
C4_Witness ==
  /\ pc = "done" /\ docsrc.kind = "exported" /\ PlainOpts(opts)
  /\ instance = "other" /\ Len(log) = 1
  /\ Count(db, "source_image", project) = 2
  /\ Count(db, "classification", project) = 1
  /\ Count(db, "taxon", project) > 1

RECURSIVE Ancestors(_, _, _)
\* the taxa reached from taxon i along parent edges, following at most `fuel`
\* edges
Ancestors(st, i, fuel) ==
  LET p == Row(st.taxon, i).parent
  IN  IF fuel = 0 \/ p = None \/ p \notin Ids(st.taxon) THEN {}
      ELSE {p} \cup Ancestors(st, p, fuel - 1)

OwnAncestor(st, i) == i \in Ancestors(st, i, Cardinality(st.taxon))

\* the taxa rows the running import has registered
Touched(st, maps) == {r \in st.taxon : \E old \in DOMAIN maps.taxon : maps.taxon[old] = r.id}

\* C5: once both passes of the Taxon import are over, no Taxon row touched by
\* the import is its own ancestor along parent edges; an edge whose resolved
\* parent is the taxon itself is not established.
C5_NoTaxonOwnAncestor ==
  pc \in (WritePhases \cup {"commit", "summary", "done"}) \ {"project", "sites", "devices",
            "storage_sources", "deployments", "events", "taxa", "taxa_parents"} =>
    \A r \in Touched(tx, id_maps) : ~OwnAncestor(tx, r.id)

\* the taxa of the exported project that have a parent in the source store
SourceChildren ==
  {s \in docsrc.store.taxon : docsrc.project \in s.projects /\ s.parent # None}

ParentNamed(st, r, name) ==
  /\ r.parent # None
  /\ \E q \in st.taxon : q.id = r.parent /\ q.name = name

SourceParentName(s) == Row(docsrc.store.taxon, s.parent).name

\* C6: after export and a successful import, the Taxon row mapped from every
\* taxon of the source project that has a parent has a non-null parent whose
\* name is the source parent's name.
C6_HierarchyPreserved ==
  (pc = "done" /\ docsrc.kind = "exported") =>
    \A s \in SourceChildren :
      \E r \in db.taxon : /\ r.id = Get(id_maps.taxon, s.id)
                          /\ ParentNamed(db, r, SourceParentName(s))

SameStoreRoundTrip ==
  pc = "done" /\ docsrc.kind = "exported" /\ instance = "source" /\ Len(log) = 1

MandatoryParentsSet(st, base) ==
  /\ \A r \in New(st, base, "event") : r.deployment \in Ids(st.deployment)
  /\ \A r \in New(st, base, "source_image") : r.deployment \in Ids(st.deployment)
  /\ \A r \in New(st, base, "occurrence") :
       r.event \in Ids(st.event) /\ r.deployment \in Ids(st.deployment)
  /\ \A r \in New(st, base, "detection") : r.source_image \in Ids(st.source_image)
  /\ \A r \in New(st, base, "classification") : r.detection \in Ids(st.detection)
  /\ \A r \in New(st, base, "identification") : r.occurrence \in Ids(st.occurrence)
  /\ \A r \in New(st, base, "pipeline_config") : r.pipeline \in Ids(st.pipeline)

Unresolved(kind, old) == Get(id_maps[kind], old) = None

\* the record the import is about to handle has a mandatory reference the
\* remapper does not resolve
CurrentUnresolved ==
  \/ /\ pc = "events" /\ idx <= Len(doc.events)
     /\ Unresolved("deployment", doc.events[idx].deployment_id)
  \/ /\ pc = "source_images" /\ idx <= Len(doc.source_images)
     /\ Unresolved("deployment", doc.source_images[idx].deployment_id)
  \/ /\ pc = "occurrences" /\ idx <= Len(doc.occurrences)
     /\ \/ Unresolved("event", doc.occurrences[idx].event_id)
        \/ Unresolved("deployment", doc.occurrences[idx].deployment_id)
  \/ /\ pc = "detections" /\ idx <= Len(doc.detections)
     /\ Unresolved("source_image", doc.detections[idx].source_image_id)
  \/ /\ pc = "classifications" /\ idx <= Len(doc.classifications)
     /\ Unresolved("detection", doc.classifications[idx].detection_id)
  \/ /\ pc = "identifications" /\ idx <= Len(doc.identifications)
     /\ Unresolved("occurrence", doc.identifications[idx].occurrence_id)
  \/ /\ pc = "pipeline_configs" /\ idx <= Len(doc.pipeline_configs)
     /\ Unresolved("pipeline", doc.pipeline_configs[idx].pipeline_id)

\* handling such a record writes nothing, registers nothing and moves to the
\* next record of the same list
SkipStep ==
  (CurrentUnresolved /\ pc' # "aborted") =>
    /\ tx' = tx /\ id_maps' = id_maps
    /\ pc' = pc /\ idx' = idx + 1

\* C8: a record of kind Event, SourceImage, Occurrence, Detection,
\* Classification, Identification or PipelineConfig whose mandatory reference
\* does not resolve is neither created nor registered and the import goes on
\* with the next record; no row the import creates has a null or dangling
\* mandatory parent, and what is committed has none either.
C8_UnresolvedMandatorySkipped ==
  /\ [](MandatoryParentsSet(tx, pre) /\ MandatoryParentsSet(db, pre))
  /\ [][SkipStep]_vars

\* an import that skipped records (an event, then what needed that event) and
\* committed the rest
C8_Witness ==
  /\ pc = "done" /\ docsrc.kind = "event_bad_deployment" /\ PlainOpts(opts)
  /\ dropped > 1
  /\ Cardinality(DOMAIN id_maps.event) < Len(doc.events)
  /\ Cardinality(DOMAIN id_maps.occurrence) < Len(doc.occurrences)
  /\ New(db, pre, "event") # {} /\ New(db, pre, "source_image") # {}

\* C9: when the import skipped records for an unresolved mandatory reference,
\* the final summary carries a line with the number of dropped records, equal
\* to the number of records skipped.
C9_DroppedCountInSummary ==
  (pc = "done" /\ dropped > 0) =>
    \E i \in DOMAIN out : out[i].label = "dropped" /\ out[i].n = dropped

\* C10: every Identification row an import creates has the importing user as
\* its author, whatever the document holds.
C10_AuthorIsImportingUser ==
  /\ \A r \in New(tx, pre, "identification") : r.user = opts.user
  /\ \A r \in New(db, pre, "identification") : r.user = opts.user

\* a committed import that created identifications whose source rows had
\* another author
C10_Witness ==
  /\ pc = "done" /\ New(db, pre, "identification") # {}
  /\ \A s \in docsrc.store.identification : s.user # opts.user

\* C11: a successful import creates exactly one new Project row; its owner is
\* the importing user, who is also a member of it; every project row that
\* existed before the import, the source project among them, is unchanged.
C11_OneNewProjectOfImporter ==
  pc \in {"summary", "done"} =>
    /\ Cardinality(New(db, pre, "project")) = 1
    /\ \A r \in New(db, pre, "project") :
         r.id = project /\ r.owner = opts.user /\ opts.user \in r.members
    /\ pre.project \subseteq db.project

\* an import into the store that holds the source project, owned by another
\* user than the importing one
C11_Witness ==
  /\ pc = "done" /\ instance = "source"
  /\ \E s \in pre.project : s.id = docsrc.project /\ s.owner # opts.user /\ s \in db.project
  /\ \E r \in db.project : r.id = project /\ r.owner = opts.user

\* C12: an import run with skip_images creates no SourceImage, Detection or
\* Occurrence row for the destination project, with skip_ml_data set or not,
\* and creates a Deployment row for every deployment record.
C12_SkipImages ==
  (pc \in {"summary", "done"} /\ opts.skip_images) =>
    /\ Count(db, "source_image", project) = 0
    /\ Count(db, "detection", project) = 0
    /\ Count(db, "occurrence", project) = 0
    /\ Count(db, "deployment", project) = Len(doc.deployments)

\* skip_images alone, on a document that has images, occurrences and detections
C12_Witness ==
  /\ pc = "done" /\ opts.skip_images /\ ~opts.skip_ml_data
  /\ Len(doc.source_images) > 0 /\ Len(doc.occurrences) > 0 /\ Len(doc.detections) > 0
  /\ Count(db, "deployment", project) > 1

\* the image records of the document whose deployment the remapper resolves
ResolvableImages ==
  {i \in DOMAIN doc.source_images :
     Get(id_maps.deployment, doc.source_images[i].deployment_id) # None}

\* C13: an import run with skip_ml_data and without skip_images creates no
\* Occurrence, Detection or Classification row for the destination project and
\* one SourceImage row for every image record whose deployment resolves.
C13_SkipMlData ==
  (pc \in {"summary", "done"} /\ opts.skip_ml_data /\ ~opts.skip_images) =>
    /\ Count(db, "occurrence", project) = 0
    /\ Count(db, "detection", project) = 0
    /\ Count(db, "classification", project) = 0
    /\ Count(db, "source_image", project) = Cardinality(ResolvableImages)

\* skip_ml_data alone, on a document with ML records and with one image whose
\* deployment does not resolve beside one whose deployment does
C13_Witness ==
  /\ pc = "done" /\ opts.skip_ml_data /\ ~opts.skip_images
  /\ docsrc.kind = "image_bad_deployment"
  /\ Len(doc.occurrences) > 0 /\ Len(doc.classifications) > 0
  /\ Count(db, "source_image", project) > 0
  /\ Count(db, "source_image", project) < Len(doc.source_images)

\* C14: when the document file does not exist or cannot be decoded, or the
\* given user does not resolve, the import ends in a fatal error with the
\* store as it was and no transaction opened; the write sequence is entered
\* only with a decoded document and a resolved user.
C14_FatalBeforeWrites ==
  /\ pc = "fatal" =>
       /\ fault.at \in {"file", "user", "json"}
       /\ db = pre /\ tx = pre /\ id_maps = InitIdMaps /\ project = None
  /\ pc \in WritePhases \cup {"commit", "summary", "done", "aborted"} =>
       /\ docsrc.kind \notin {"none", "not_json"}
       /\ opts.user \in Users

\* a good document given with an e-mail no user has, in a store that an
\* earlier import has written to
C14_Witness ==
  /\ pc = "fatal" /\ fault.at = "user" /\ docsrc.kind = "exported"
  /\ opts.user \notin Users /\ Len(log) = 1

\* the name the running import asks for: the override when given, else the
\* document's project name
RequestedName ==
  IF opts.project_name # NoName THEN opts.project_name ELSE doc.project.name

ImportedName == Row(tx.project, project).name

\* C15: the imported project's name is the requested name when no project had
\* it before the import, else the requested name followed by " (n)" for the
\* smallest n >= 1 whose suffixed name no project had; so it is determined by
\* the requested name and the set of existing names.
C15_ProjectNameSuffix ==
  pc \in (WritePhases \ {"project"}) \cup {"commit", "summary", "done"} =>
    LET names == ProjectNames(pre)
    IN  IF RequestedName \notin names THEN ImportedName = RequestedName
        ELSE \E n \in 1..(Cardinality(names) + 1) :
               /\ ImportedName = Suffixed(RequestedName, n)
               /\ ImportedName \notin names
               /\ \A m \in 1..(n - 1) : Suffixed(RequestedName, m) \in names

\* the requested name and its first suffix are both taken: the import takes
\* the second suffix
C15_Witness ==
  /\ pc = "done"
  /\ {RequestedName, Suffixed(RequestedName, 1)} \subseteq ProjectNames(pre)
  /\ ImportedName = Suffixed(RequestedName, 2)

\* a step keeps the identity of every key the remapper holds before and after it
KeysKept ==
  \A k \in Kinds : \A old \in DOMAIN id_maps[k] :
    old \in DOMAIN id_maps'[k] => id_maps'[k][old] = id_maps[k][old]

\* C16: within one import no registration changes the identity a key of the
\* remapper already maps to, whatever the document, one that repeats an id
\* within a kind included.
C16_WriteOncePerKey == [][KeysKept]_vars

AlwaysCreateKinds ==
  {"site", "device", "storage_source", "deployment", "event", "source_image",
   "collection", "occurrence", "detection", "classification", "identification",
   "pipeline_config", "taxa_list", "tag"}

Section(k) ==
  CASE k = "site" -> doc.sites
    [] k = "device" -> doc.devices
    [] k = "storage_source" -> doc.storage_sources
    [] k = "deployment" -> doc.deployments
    [] k = "event" -> doc.events
    [] k = "source_image" -> doc.source_images
    [] k = "collection" -> doc.collections
    [] k = "occurrence" -> doc.occurrences
    [] k = "detection" -> doc.detections
    [] k = "classification" -> doc.classifications
    [] k = "identification" -> doc.identifications
    [] k = "pipeline_config" -> doc.pipeline_configs
    [] k = "taxa_list" -> doc.taxa_lists
    [] k = "tag" -> doc.tags

\* the mandatory references of a record of kind k resolve in the remapper
Resolves(k, rec) ==
  CASE k = "event" -> ~Unresolved("deployment", rec.deployment_id)
    [] k = "source_image" -> ~Unresolved("deployment", rec.deployment_id)
    [] k = "occurrence" -> /\ ~Unresolved("event", rec.event_id)
                           /\ ~Unresolved("deployment", rec.deployment_id)
    [] k = "detection" -> ~Unresolved("source_image", rec.source_image_id)
    [] k = "classification" -> ~Unresolved("detection", rec.detection_id)
    [] k = "identification" -> ~Unresolved("occurrence", rec.occurrence_id)
    [] k = "pipeline_config" -> ~Unresolved("pipeline", rec.pipeline_id)
    [] OTHER -> TRUE

ResolvedRecords(k) == {i \in DOMAIN Section(k) : Resolves(k, Section(k)[i])}

\* C18: in an import with no skip flag, every record of an always-create kind
\* whose mandatory references resolve produces exactly one newly created row:
\* the import creates as many rows of the kind as the document has such
\* records, and reuses none.
C18_AlwaysCreate ==
  (pc = "done" /\ PlainOpts(opts)) =>
    \A k \in AlwaysCreateKinds :
      Cardinality(New(db, pre, k)) = Cardinality(ResolvedRecords(k))

\* the steps of import_data after the project, in the order of the claim; a
\* step is named by the label of the line that closes it
StepOrder ==
  <<"sites", "devices", "storage_sources", "deployments", "events", "taxa",
    "taxa_lists", "tags", "source_images", "collections", "algorithms",
    "occurrences", "detections", "classifications", "identifications",
    "processing_services", "pipelines", "pipeline_configs">>

Steps == Range(StepOrder)

PosOf == [s \in Steps |-> CHOOSE i \in DOMAIN StepOrder : StepOrder[i] = s]

Pos(step) == PosOf[step]

\* the steps the flags leave in
ToRun(o) ==
  (Steps
     \ (IF o.skip_images THEN {"source_images", "collections"} ELSE {}))
     \ (IF o.skip_images \/ o.skip_ml_data
          THEN {"algorithms", "occurrences", "detections", "classifications",
                "identifications"}
          ELSE {})

\* the steps whose closing line has been written
Finished == {out[i].label : i \in DOMAIN out} \cap Steps

\* the position in StepOrder of the step the import is in
RankOf(p) ==
  CASE p = "project" -> 0
    [] p = "taxa_parents" -> Pos("taxa")
    [] p = "update_occurrences" -> Pos("processing_services")
    [] p \in {"commit", "summary", "done"} -> Len(StepOrder) + 1
    [] OTHER -> Pos(p)

\* <<p, q>>: a record handled in step p holds a reference that is resolved in
\* the remapper's map of the kind of step q
References ==
  {<<"deployments", "sites">>, <<"deployments", "devices">>,
   <<"deployments", "storage_sources">>, <<"events", "deployments">>,
   <<"taxa_lists", "taxa">>, <<"tags", "taxa">>,
   <<"source_images", "deployments">>, <<"source_images", "events">>,
   <<"collections", "source_images">>,
   <<"occurrences", "events">>, <<"occurrences", "deployments">>,
   <<"occurrences", "taxa">>, <<"detections", "source_images">>,
   <<"detections", "occurrences">>, <<"detections", "algorithms">>,
   <<"classifications", "detections">>, <<"classifications", "taxa">>,
   <<"classifications", "algorithms">>, <<"identifications", "occurrences">>,
   <<"identifications", "taxa">>, <<"identifications", "classifications">>,
   <<"identifications", "identifications">>, <<"pipelines", "algorithms">>,
   <<"pipeline_configs", "pipelines">>}

Importing == pc \in WritePhases \cup {"commit", "summary", "done"}

\* the steps run one after the other in the order of StepOrder: the steps that
\* have finished are exactly those before the one the import is in
StrictOrder ==
  /\ Finished = {s \in ToRun(opts) : Pos(s) < RankOf(pc)}
  /\ LET IsStep(line) == line.label \in Steps
         closed == SelectSeq(out, IsStep)
     IN  \A i \in 1..(Len(closed) - 1) : Pos(closed[i].label) < Pos(closed[i + 1].label)

\* C19 as stated: the steps run strictly in the order of the claim, and while
\* a step resolves its records the step of every kind they reference has
\* finished.
C19_EveryReferencedKindRegistered ==
  Importing =>
    /\ StrictOrder
    /\ \A ref \in References : pc = ref[1] => ref[2] \in Finished

\* C19: the steps run strictly in the order of the claim, and while a step
\* resolves its records the step of every other kind they reference has
\* finished, unless a skip flag left that step out; the parent and synonym
\* references of the taxa are resolved when every taxon record is registered;
\* a reference of an identification to an identification is resolved while
\* the identifications are being registered.
C19_StrictDependencyOrder ==
  Importing =>
    /\ StrictOrder
    /\ \A ref \in References :
         (pc = ref[1] /\ ref[2] # ref[1] /\ ref[2] \in ToRun(opts)) => ref[2] \in Finished
    /\ pc = "taxa_parents" =>
         \A i \in DOMAIN doc.taxa : doc.taxa[i].id \in DOMAIN id_maps.taxon
    /\ pc # "project" => doc.project.id \in DOMAIN id_maps.project

\* the second identification of the document is about to be resolved: it
\* agrees with the first, registered a step earlier in the same loop
C19_Witness ==
  /\ pc = "identifications" /\ idx = 2 /\ idx <= Len(doc.identifications)
  /\ doc.identifications[2].agreed_with_identification_id = doc.identifications[1].id
  /\ doc.identifications[1].id \in DOMAIN id_maps.identification
  /\ Finished = {s \in Range(StepOrder) : Pos(s) < Pos("identifications")}

\* the dependency order of the kinds, by the keys of their sections; the kinds
\* of one group have no order among them
DependencyGroups ==
  <<{"project"}, {"sites", "devices", "storage_sources"}, {"deployments"},
    {"events"}, {"taxa"}, {"taxa_lists", "tags"}, {"source_images"},
    {"collections"}, {"algorithms"}, {"occurrences"}, {"detections"},
    {"classifications"}, {"identifications"}, {"processing_services"},
    {"pipelines"}, {"pipeline_configs"}>>

GroupOf(key) == CHOOSE g \in DOMAIN DependencyGroups : key \in DependencyGroups[g]

\* C20: the per-kind sections of an exported document appear in the
\* dependency order of the kinds.
C20_SectionsInDependencyOrder ==
  docsrc.kind = "exported" =>
    \A i, j \in DOMAIN doc.sections :
      i < j => GroupOf(doc.sections[i]) <= GroupOf(doc.sections[j])

MlSteps == {"occurrences", "detections", "classifications", "identifications"}

AfterReconciliation ==
  pc \in {"processing_services", "pipelines", "pipeline_configs", "commit", "summary", "done"}

\* C21: in an import that includes the ML data the reconciliation pass starts
\* when every occurrence, detection, classification and identification record
\* has been handled; before it no occurrence of the destination project has
\* been saved by it, after it each has been saved by it exactly once; the
\* occurrences of other projects are not touched; and it is over before the
\* commit, while the committed store is still as it was before the import.
C21_ReconciliationOnce ==
  (Importing /\ PlainOpts(opts)) =>
    /\ pc = "update_occurrences" => MlSteps \subseteq Finished
    /\ ~AfterReconciliation => \A o \in OfProject(tx, "occurrence", project) : o.saves = 0
    /\ AfterReconciliation =>
         /\ MlSteps \subseteq Finished
         /\ \A o \in OfProject(tx, "occurrence", project) : o.saves = 1
    /\ pre.occurrence \subseteq tx.occurrence
    /\ pc \notin {"summary", "done"} => db = pre

\* the pass is over and the transaction not yet committed: both occurrences of
\* the document saved once, in a store that held occurrences before
C21_Witness ==
  /\ pc = "commit" /\ PlainOpts(opts) /\ instance = "source"
  /\ Cardinality(OfProject(tx, "occurrence", project)) = 2
  /\ \A o \in OfProject(tx, "occurrence", project) : o.saves = 1
  /\ pre.occurrence # {} /\ db = pre

\* the merge-by-natural-key tables and what is a natural key in each
SharesNaturalKey(k, r, s) ==
  CASE k = "taxon" -> r.name = s.name
    [] k = "algorithm" -> r.key = s.key /\ r.version = s.version
    [] k = "processing_service" -> r.endpoint_url = s.endpoint_url
    [] k = "pipeline" -> r.name = s.name /\ r.version = s.version

MergeKinds == {"taxon", "algorithm", "processing_service", "pipeline"}

Duplicated(st, k) == \E r, s \in st[k] : r.id # s.id /\ SharesNaturalKey(k, r, s)

\* both transactions were open at once: the second began before the first
\* committed
Overlapped == Len(log) >= 2 /\ log[1].op = "begin" /\ log[2].op = "begin"

\* C22: two imports of one document against one store. Two committed reference
\* rows share a natural key only if the two transactions were open at once and
\* the store held no row of that key when they began; when one import commits
\* before the other begins, no two rows share a natural key.
C22_DuplicatesOnlyWhenConcurrent ==
  \A k \in MergeKinds : Duplicated(db, k) => Overlapped /\ ~Duplicated(pre, k) /\ pre[k] = {}

\* both imports committed, each having looked up before the other committed:
\* every merge-by-natural-key table holds two rows of one key
C22_Witness ==
  /\ \A p \in Importers : pc[p] = "done"
  /\ Overlapped
  /\ \A k \in MergeKinds : Duplicated(db, k)

\* a step of the export command: it wrote its document, or it failed
ExportSucceeded == docsrc.kind = "none" /\ docsrc'.kind = "exported"

ExportFailed == pc' = "export_failed" /\ docsrc' = docsrc /\ docsrc.kind = "none"

\* C23: a run of the export command leaves the committed store and the working
\* copy as they were; a run that is given a name no project has fails and
\* leaves no document, and a run that writes a document was given the name of
\* a project.
C23_ExportReadOnly ==
  [][/\ (ExportSucceeded \/ ExportFailed) => db' = db /\ tx' = tx /\ pre' = pre
     /\ ExportFailed => doc' = NoDoc /\ doc = NoDoc
     /\ ExportSucceeded =>
          \E r \in db.project : r.name \in ExportNames /\ doc' = build_export_data(db, r.id)]_vars

\* an export of a name no project has failed, then the project was exported:
\* the store is the one the document was made from
C23_Witness ==
  /\ pc = "export_failed" /\ docsrc.kind = "exported"
  /\ db = docsrc.store /\ db = pre
  /\ doc = build_export_data(db, docsrc.project)

\* the store s with other people: every project owned by owner with the
\* members given, every identification made by author
WithPeople(s, owner, members, author) ==
  [s EXCEPT !.project = {[r EXCEPT !.owner = owner, !.members = members] : r \in @},
            !.identification = {[r EXCEPT !.user = author] : r \in @}]

PeopleFields == {"owner", "members", "user", "user_id", "owner_id"}

\* C24: the document exported from a store, as it is before any import reads
\* it, is the document exported from any
\* store that differs from it only in the owner and members of the projects
\* and in the authors of the identifications; its project record and its
\* identification records carry no owner, member or author field.
C24_ExportWithoutPeople ==
  (docsrc.kind = "exported" /\ nimports = 0) =>
    /\ \A owner \in Users, author \in Users : \A members \in SUBSET Users :
         build_export_data(WithPeople(docsrc.store, owner, members, author), docsrc.project)
           = doc
    /\ DOMAIN doc.project \cap PeopleFields = {}
    /\ \A i \in DOMAIN doc.identifications :
         DOMAIN doc.identifications[i] \cap PeopleFields = {}

\* a document exported from a project that has an owner, a member and two
\* identifications with an author
C24_Witness ==
  /\ docsrc.kind = "exported"
  /\ Row(docsrc.store.project, docsrc.project).owner = "alice"
  /\ Row(docsrc.store.project, docsrc.project).members = {"alice"}
  /\ Len(doc.identifications) = 2
  /\ \A r \in docsrc.store.identification : r.user = "alice"

\* C25: against any set of existing project names the `while` condition of
\* import_project is tested on pairwise distinct names, at most (number of
\* existing projects + 1) of them, and the loop is left: the project is
\* created, under the name the loop ended on, which no existing project has.
C25_NameLoopTerminates ==
  /\ [](/\ Len(out) <= Cardinality(db.project) + 1
        /\ \A i, j \in DOMAIN out : i # j => out[i] # out[j]
        /\ pc = "sites" =>
             /\ project \notin ProjectNames(db)
             /\ {r.name : r \in tx.project \ db.project} = {project})
  /\ <>(pc = "sites")

\* every name the loop tries is taken but the last: as many tests as there are
\* projects, and one more
C25_Witness ==
  /\ pc = "sites"
  /\ Cardinality(db.project) >= MaxSuffix
  /\ Len(out) = Cardinality(db.project) + 1

NamesDistinct(st) == \A r, s \in st.project : r.id # s.id => r.name # s.name

\* C26: the store starts with pairwise distinct project names, and after any
\* sequence of imports run one after the other, committed or rolled back, with
\* or without a name override, the project names of the committed store, and
\* of the working copy of the running import, are pairwise distinct.
C26_ProjectNamesDistinct ==
  /\ NamesDistinct(pre)
  /\ NamesDistinct(db)
  /\ NamesDistinct(tx)

\* two imports of the document of project "A" committed into its own store:
\* three projects whose names all start with "A"
C26_Witness ==
  /\ pc = "done" /\ Len(log) = 2
  /\ Cardinality(db.project) = 3
  /\ \A r \in db.project : r.name.base = "A"
  /\ NamesDistinct(db)

\* the identification record at position i of the document is created: its
\* occurrence was imported
IdentificationCreated(i) ==
  Get(id_maps.occurrence, doc.identifications[i].occurrence_id) # None

\* the position before i of a created record with the id ref; 0 when none
EarlierCreated(i, ref) ==
  LET found == {j \in 1..(i - 1) : doc.identifications[j].id = ref /\ IdentificationCreated(j)}
  IN  IF found = {} THEN 0 ELSE MaxOf(found)

\* C27: once the identifications are imported, every record whose occurrence
\* was imported has its row, and the row's agreed-with-identification is the
\* new identity of the referenced record when that record stands earlier in
\* the list and was created, and null otherwise: for a reference to a later
\* record, to the record itself, or to a skipped record.
C27_AgreementOnlyBackwards ==
  (Importing /\ "identifications" \in Finished) =>
    \A i \in DOMAIN doc.identifications :
      LET rec == doc.identifications[i]
          ref == rec.agreed_with_identification_id
          j == EarlierCreated(i, ref)
      IN  IF ~IdentificationCreated(i) THEN rec.id \notin DOMAIN id_maps.identification
          ELSE /\ rec.id \in DOMAIN id_maps.identification
               /\ id_maps.identification[rec.id] \in Ids(New(tx, pre, "identification"))
               /\ Row(tx.identification, id_maps.identification[rec.id]).agreed_with_identification
                    = IF j = 0 THEN None
                      ELSE id_maps.identification[doc.identifications[j].id]

\* the document with all five kinds of reference was imported: four rows, one
\* of them with an agreement
C27_Witness ==
  /\ pc = "done" /\ docsrc.kind = "identification_references" /\ PlainOpts(opts)
  /\ Cardinality(New(db, pre, "identification")) = 4
  /\ Cardinality({r \in New(db, pre, "identification") :
                    r.agreed_with_identification # None}) = 1

\* the value pass two leaves in a column of a reused row: the resolved
\* reference of the record when it declares one that resolves, else the old one
AfterPassTwo(old, declared) ==
  IF declared # None /\ Get(id_maps.taxon, declared) # None
    THEN id_maps.taxon[declared] ELSE old

C29_PipelineAlgorithmsOnCreate ==
  Importing =>
    /\ pre.pipeline \subseteq tx.pipeline
    /\ "pipelines" \in Finished =>
         \A i \in DOMAIN doc.pipelines :
           LET rec == doc.pipelines[i]
               row == Row(tx.pipeline, id_maps.pipeline[rec.id])
           IN  row.id \notin Ids(pre.pipeline) =>
                 /\ row.algorithms =
                      {id_maps.algorithm[a] : a \in rec.algorithm_ids \cap DOMAIN id_maps.algorithm}
                 /\ ~PlainOpts(opts) => row.algorithms = {}

\* on another instance an import that skipped the ML data created the pipeline
\* with no algorithm; a full import of the same document then created the
\* algorithms and reused the pipeline, which still has none
C29_Witness ==
  /\ pc = "done" /\ instance = "other" /\ Len(log) = 2
  /\ ~log[1].plain /\ log[2].plain
  /\ Cardinality(db.algorithm) = 2
  /\ db.pipeline # {} /\ \A r \in db.pipeline : r.algorithms = {}
  /\ db.pipeline = pre.pipeline

\* the new identities of the member ids that the import registered
Registered(m, ids) == {m[old] : old \in ids \cap DOMAIN m}

\* the row the running import created for the record rec of kind k
Imported(k, rec) == Row(New(tx, pre, k), id_maps[k][rec.id])

\* C30: once taxa lists, tags and collections are imported, every record of
\* them has a row the import created, whose members are exactly the new
\* identities of the record's member ids that the import registered: members
\* that do not resolve are left out. A tag record naming at least one taxon of
\* the document has a row with at least one taxon.
C30_MembershipIsResolvedSet ==
  Importing =>
    /\ "taxa_lists" \in Finished =>
         \A i \in DOMAIN doc.taxa_lists :
           LET rec == doc.taxa_lists[i]
           IN  /\ rec.id \in DOMAIN id_maps.taxa_list
               /\ id_maps.taxa_list[rec.id] \in Ids(New(tx, pre, "taxa_list"))
               /\ Imported("taxa_list", rec).taxa = Registered(id_maps.taxon, rec.taxa_ids)
    /\ "tags" \in Finished =>
         \A i \in DOMAIN doc.tags :
           LET rec == doc.tags[i]
           IN  /\ rec.id \in DOMAIN id_maps.tag
               /\ id_maps.tag[rec.id] \in Ids(New(tx, pre, "tag"))
               /\ Imported("tag", rec).taxa = Registered(id_maps.taxon, rec.taxa_ids)
               /\ (\E j \in DOMAIN doc.taxa : doc.taxa[j].id \in rec.taxa_ids)
                    => Imported("tag", rec).taxa # {}
    /\ "collections" \in Finished =>
         \A i \in DOMAIN doc.collections :
           LET rec == doc.collections[i]
           IN  /\ rec.id \in DOMAIN id_maps.collection
               /\ id_maps.collection[rec.id] \in Ids(New(tx, pre, "collection"))
               /\ Imported("collection", rec).images
                    = Registered(id_maps.source_image, rec.image_ids)

\* a committed import of a document whose taxa list names a taxon that is not
\* in the document and whose collection names an image that was skipped: the
\* list and the collection are there with the members that resolved, the tag
\* has its taxon
C30_Witness ==
  /\ pc = "done" /\ docsrc.kind = "image_bad_deployment" /\ PlainOpts(opts)
  /\ \E l \in New(db, pre, "taxa_list") :
       Cardinality(l.taxa) = 1 /\ Cardinality(doc.taxa_lists[1].taxa_ids) = 2
  /\ \E t \in New(db, pre, "tag") : t.taxa # {}
  /\ \E c \in New(db, pre, "collection") :
       Cardinality(c.images) = 1 /\ Cardinality(doc.collections[1].image_ids) = 2

====
